---- MODULE Spec2Model ----
(***************************************************************************)
(* State-machine model of the smredir USB-interface virtualization engine: *)
(* the CCID bulk-message codec (ccid_proto.rs), the CCID bridge (ccid.rs), *)
(* the WebUSB forwarder (webusb.rs) and the composite device handler       *)
(* (device.rs).  Bytes are the integers 0..255, byte strings are TLA+      *)
(* sequences, and every URB handler is one atomic action.                  *)
(***************************************************************************)
EXTENDS Integers, Sequences, FiniteSets, TLC

(***************************************************************************)
(* Bounds of the model.                                                    *)
(***************************************************************************)
\* longest response queue explored under Spec
MaxQueue == 1
\* longest response queue explored under SpecFifo
MaxFifoQueue == 2
\* the number of tasks serving Bulk OUT URBs concurrently
NumTasks == 2
\* the number of tasks serving URBs of any handler concurrently
NumUrbTasks == 3
\* the most raw-HID devices an enumeration holds
MaxHidDevices == 2

(***************************************************************************)
(* ccid_const.rs                                                           *)
(***************************************************************************)
PC_to_RDR_IccPowerOn == 98
PC_to_RDR_IccPowerOff == 99
PC_to_RDR_GetSlotStatus == 101
PC_to_RDR_XfrBlock == 111
PC_to_RDR_GetParameters == 108
PC_to_RDR_ResetParameters == 109
PC_to_RDR_SetParameters == 97
PC_to_RDR_Escape == 107
PC_to_RDR_IccClock == 110
PC_to_RDR_T0APDU == 106
PC_to_RDR_Secure == 105
PC_to_RDR_Mechanical == 113
PC_to_RDR_Abort == 114
PC_to_RDR_SetDataRateAndClockFrequency == 115

RDR_to_PC_DataBlock == 128
RDR_to_PC_SlotStatus == 129
RDR_to_PC_Parameters == 130
RDR_to_PC_Escape == 131
RDR_to_PC_DataRateAndClockFrequency == 132

HW_ERROR == 251
CMD_SLOT_BUSY == 224
CMD_NOT_SUPPORTED == 0

\* the 14 command types Command::decode knows
CommandTypes ==
    { PC_to_RDR_IccPowerOn, PC_to_RDR_IccPowerOff, PC_to_RDR_GetSlotStatus,
      PC_to_RDR_XfrBlock, PC_to_RDR_GetParameters, PC_to_RDR_ResetParameters,
      PC_to_RDR_SetParameters, PC_to_RDR_Escape, PC_to_RDR_IccClock,
      PC_to_RDR_T0APDU, PC_to_RDR_Secure, PC_to_RDR_Mechanical,
      PC_to_RDR_Abort, PC_to_RDR_SetDataRateAndClockFrequency }

(***************************************************************************)
(* Byte helpers.                                                           *)
(***************************************************************************)
\* read_u32::<LittleEndian> of the four bytes of s starting at position p
LE32(s, p) == s[p] + 256 * s[p + 1] + 65536 * s[p + 2] + 16777216 * s[p + 3]

\* write_u32::<LittleEndian>
LE32Bytes(n) ==
    << n % 256, (n \div 256) % 256, (n \div 65536) % 256, (n \div 16777216) % 256 >>

\* a cursor at position p (1-based) can still deliver n bytes of s
HasBytes(s, p, n) == p + n - 1 <= Len(s)

(***************************************************************************)
(* SlotErrorRegister, ICCStatus, CommandStatus, SlotStatusRegister         *)
(***************************************************************************)
\* an error register value is a pair <<variant, payload byte>>
UnsupportedCommand == << "UnsupportedCommand", 0 >>
HardwareError == << "HardwareError", 0 >>
CommandSlotBusy == << "CommandSlotBusy", 0 >>
InvalidParameter(x) == << "InvalidParameter", x >>

\* From<SlotErrorRegister> for u8
ErrorByte(e) ==
    CASE e[1] = "UnsupportedCommand" -> CMD_NOT_SUPPORTED
      [] e[1] = "HardwareError" -> HW_ERROR
      [] e[1] = "CommandSlotBusy" -> CMD_SLOT_BUSY
      [] e[1] = "InvalidParameter" -> e[2]

\* ICCStatus::to_u8
ICCStatusByte(icc) ==
    CASE icc = "Active" -> 0
      [] icc = "Inactive" -> 1
      [] icc = "Absent" -> 2

\* CommandStatus::to_u8
CommandStatusByte(c) ==
    CASE c = "Success" -> 0
      [] c = "Failure" -> 1
      [] c = "TimeExtensionRequested" -> 2

\* combine_slot_status: icc | (command << 6)
combine_slot_status(icc, command) == ICCStatusByte(icc) + 64 * CommandStatusByte(command)

\* From<SlotStatusRegister> for u8
StatusByte(s) ==
    CASE s = "ICCActiveSuccess" -> combine_slot_status("Active", "Success")
      [] s = "ICCActiveFailure" -> combine_slot_status("Active", "Failure")
      [] s = "ICCInactiveSuccess" -> combine_slot_status("Inactive", "Success")
      [] s = "ICCInactiveFailure" -> combine_slot_status("Inactive", "Failure")
      [] s = "ICCAbsentSuccess" -> combine_slot_status("Absent", "Success")
      [] s = "ICCAbsentFailure" -> combine_slot_status("Absent", "Failure")

\* SlotStatusRegister::CommandStatus: (byte & 0xC0) >> 6, converted back
CommandStatusOf(s) ==
    LET v == (StatusByte(s) \div 64) % 4
    IN  CASE v = 0 -> "Success"
          [] v = 1 -> "Failure"
          [] v = 2 -> "TimeExtensionRequested"

(***************************************************************************)
(* Command::decode                                                         *)
(***************************************************************************)
\* CommonMessageHeader::decode: 7 bytes, bMessageType dwLength(LE) bSlot bSeq
DecodeHeader(req) ==
    [ bMessageType |-> req[1], dwLength |-> LE32(req, 2),
      bSlot |-> req[6], bSeq |-> req[7] ]

\* CCIDError::command_error with the status every decode error but the
\* unknown-type one carries
CmdErr(h, e) ==
    [ tag |-> "CommandError", header |-> h, bStatus |-> "ICCInactiveFailure",
      bError |-> e, abData |-> << >>, next |-> 0 ]

\* a decoded command: its header, its payload, and the cursor after it
CmdOk(h, data, next) ==
    [ tag |-> "Ok", header |-> h, bStatus |-> "ICCActiveSuccess",
      bError |-> UnsupportedCommand, abData |-> data, next |-> next ]

\* PowerOff, GetSlotStatus, GetParameters, ResetParameters, Abort:
\* dwLength must be 0, then abRFU[3]
DecodeFixed3(req, h) ==
    IF h.dwLength # 0 THEN CmdErr(h, InvalidParameter(1))
    ELSE IF ~HasBytes(req, 8, 3) THEN CmdErr(h, InvalidParameter(7))
    ELSE CmdOk(h, << >>, 11)

\* IccPowerOn, IccClock, Mechanical: dwLength must be 0, an enum byte whose
\* valid values are `valid', then abRFU[2]
DecodeEnum2(req, h, valid) ==
    IF h.dwLength # 0 THEN CmdErr(h, InvalidParameter(1))
    ELSE IF ~HasBytes(req, 8, 1) THEN CmdErr(h, InvalidParameter(7))
    ELSE IF req[8] \notin valid THEN CmdErr(h, InvalidParameter(7))
    ELSE IF ~HasBytes(req, 9, 2) THEN CmdErr(h, InvalidParameter(8))
    ELSE CmdOk(h, << >>, 11)

\* T0APDU: dwLength must be 0, bmChanges in 0..3, two class bytes
DecodeT0APDU(req, h) ==
    IF h.dwLength # 0 THEN CmdErr(h, InvalidParameter(1))
    ELSE IF ~HasBytes(req, 8, 1) THEN CmdErr(h, InvalidParameter(7))
    ELSE IF req[8] \notin 0..3 THEN CmdErr(h, InvalidParameter(7))
    ELSE IF ~HasBytes(req, 9, 1) THEN CmdErr(h, InvalidParameter(8))
    ELSE IF ~HasBytes(req, 10, 1) THEN CmdErr(h, InvalidParameter(9))
    ELSE CmdOk(h, << >>, 11)

\* XfrBlock, Secure: bBWI, wLevelParameter, then dwLength bytes of abData
DecodeBlock(req, h) ==
    IF ~HasBytes(req, 8, 1) THEN CmdErr(h, InvalidParameter(7))
    ELSE IF ~HasBytes(req, 9, 2) THEN CmdErr(h, InvalidParameter(8))
    ELSE IF ~HasBytes(req, 11, h.dwLength) THEN CmdErr(h, InvalidParameter(1))
    ELSE CmdOk(h, SubSeq(req, 11, 10 + h.dwLength), 11 + h.dwLength)

\* SetParameters: bProtocolNum (ICCProtocol::try_from fails with
\* InvalidParameter(9)), abRFU[2], then dwLength bytes of abData
DecodeSetParameters(req, h) ==
    IF ~HasBytes(req, 8, 1) THEN CmdErr(h, InvalidParameter(7))
    ELSE IF req[8] \notin 0..1 THEN CmdErr(h, InvalidParameter(9))
    ELSE IF ~HasBytes(req, 9, 2) THEN CmdErr(h, InvalidParameter(8))
    ELSE IF ~HasBytes(req, 11, h.dwLength) THEN CmdErr(h, InvalidParameter(1))
    ELSE CmdOk(h, SubSeq(req, 11, 10 + h.dwLength), 11 + h.dwLength)

\* Escape: abRFU[3], then dwLength bytes of abData
DecodeEscape(req, h) ==
    IF ~HasBytes(req, 8, 3) THEN CmdErr(h, InvalidParameter(7))
    ELSE IF ~HasBytes(req, 11, h.dwLength) THEN CmdErr(h, InvalidParameter(1))
    ELSE CmdOk(h, SubSeq(req, 11, 10 + h.dwLength), 11 + h.dwLength)

\* SetDataRateAndClockFrequency: dwLength must be 8, abRFU[3], two u32
DecodeSetDataRate(req, h) ==
    IF h.dwLength # 8 THEN CmdErr(h, InvalidParameter(1))
    ELSE IF ~HasBytes(req, 8, 3) THEN CmdErr(h, InvalidParameter(7))
    ELSE IF ~HasBytes(req, 11, 4) THEN CmdErr(h, InvalidParameter(10))
    ELSE IF ~HasBytes(req, 15, 4) THEN CmdErr(h, InvalidParameter(14))
    ELSE CmdOk(h, << >>, 19)

\* the match on header.bMessageType
DecodeBody(req, h) ==
    LET t == h.bMessageType
    IN  CASE t = PC_to_RDR_IccPowerOn -> DecodeEnum2(req, h, 0..3)
          [] t = PC_to_RDR_IccPowerOff -> DecodeFixed3(req, h)
          [] t = PC_to_RDR_GetSlotStatus -> DecodeFixed3(req, h)
          [] t = PC_to_RDR_XfrBlock -> DecodeBlock(req, h)
          [] t = PC_to_RDR_GetParameters -> DecodeFixed3(req, h)
          [] t = PC_to_RDR_ResetParameters -> DecodeFixed3(req, h)
          [] t = PC_to_RDR_SetParameters -> DecodeSetParameters(req, h)
          [] t = PC_to_RDR_Escape -> DecodeEscape(req, h)
          [] t = PC_to_RDR_IccClock -> DecodeEnum2(req, h, 0..1)
          [] t = PC_to_RDR_T0APDU -> DecodeT0APDU(req, h)
          [] t = PC_to_RDR_Secure -> DecodeBlock(req, h)
          [] t = PC_to_RDR_Mechanical -> DecodeEnum2(req, h, 1..5)
          [] t = PC_to_RDR_Abort -> DecodeFixed3(req, h)
          [] t = PC_to_RDR_SetDataRateAndClockFrequency -> DecodeSetDataRate(req, h)
          [] OTHER ->
                [ tag |-> "CommandError", header |-> h, bStatus |-> "ICCActiveFailure",
                  bError |-> UnsupportedCommand, abData |-> << >>, next |-> 0 ]

\* Command::decode without the check for trailing bytes
DecodeIgnoresTrailing(req) ==
    IF ~HasBytes(req, 1, 7)
    THEN [ tag |-> "BadCommand",
           header |-> [ bMessageType |-> 0, dwLength |-> 0, bSlot |-> 0, bSeq |-> 0 ],
           bStatus |-> "ICCActiveSuccess", bError |-> UnsupportedCommand,
           abData |-> << >>, next |-> 0 ]
    ELSE DecodeBody(req, DecodeHeader(req))

\* Command::decode: header, body, and the check for trailing bytes
Decode(req) ==
    IF ~HasBytes(req, 1, 7)
    THEN [ tag |-> "BadCommand",
           header |-> [ bMessageType |-> 0, dwLength |-> 0, bSlot |-> 0, bSeq |-> 0 ],
           bStatus |-> "ICCActiveSuccess", bError |-> UnsupportedCommand,
           abData |-> << >>, next |-> 0 ]
    ELSE LET h == DecodeHeader(req)
             r == DecodeBody(req, h)
         IN  IF r.tag = "Ok" /\ HasBytes(req, r.next, 1)
             THEN CmdErr(h, InvalidParameter(1))
             ELSE r

(***************************************************************************)
(* Response                                                                *)
(***************************************************************************)
\* MkResponse without header.dwLength = 0x0: the command's length is kept
MkResponseKeepLength(variant, command, msgType, status, error) ==
    [ variant |-> variant, bMessageType |-> msgType, dwLength |-> command.dwLength,
      bSlot |-> command.bSlot, bSeq |-> command.bSeq,
      bStatus |-> status, bError |-> error,
      bChainParameter |-> 0, bClockStatus |-> 0, bProtocolNum |-> 1,
      abData |-> << >>, dwDataRate |-> 0, dwClockFrequency |-> 0 ]

\* a Response value: the variant tag, the ResponseMessageHeader fields and
\* the fields of the variant (those a variant lacks keep their defaults)
MkResponse(variant, command, msgType, status, error) ==
    [ variant |-> variant, bMessageType |-> msgType, dwLength |-> 0,
      bSlot |-> command.bSlot, bSeq |-> command.bSeq,
      bStatus |-> status, bError |-> error,
      bChainParameter |-> 0, bClockStatus |-> 0, bProtocolNum |-> 1,
      abData |-> << >>, dwDataRate |-> 0, dwClockFrequency |-> 0 ]

\* the command type new_with_status answers with RDR_to_PC_Escape: the arm
\* is written with the response constant, not PC_to_RDR_Escape
EscapeArmType == RDR_to_PC_Escape

\* Response::new_with_status
new_with_status(command, status, error) ==
    LET t == command.bMessageType
    IN  IF CommandStatusOf(status) = "Failure" /\ error = UnsupportedCommand
        THEN MkResponse("UnsupportedCommand", command, t, status, error)
        ELSE CASE t \in { PC_to_RDR_IccPowerOn, PC_to_RDR_XfrBlock, PC_to_RDR_Secure } ->
                    MkResponse("DataBlock", command, RDR_to_PC_DataBlock, status, error)
               [] t \in { PC_to_RDR_IccPowerOff, PC_to_RDR_GetSlotStatus,
                          PC_to_RDR_IccClock, PC_to_RDR_T0APDU,
                          PC_to_RDR_Mechanical, PC_to_RDR_Abort } ->
                    MkResponse("SlotStatus", command, RDR_to_PC_SlotStatus, status, error)
               [] t \in { PC_to_RDR_GetParameters, PC_to_RDR_ResetParameters,
                          PC_to_RDR_SetParameters } ->
                    MkResponse("Parameters", command, RDR_to_PC_Parameters, status, error)
               [] t = EscapeArmType ->
                    MkResponse("Escape", command, RDR_to_PC_Escape, status, error)
               [] t = PC_to_RDR_SetDataRateAndClockFrequency ->
                    MkResponse("DataRateAndClockFrequency", command,
                               RDR_to_PC_DataRateAndClockFrequency, status, error)
               [] OTHER ->
                    MkResponse("UnsupportedCommand", command, t,
                               "ICCActiveFailure", UnsupportedCommand)

\* Response::new
ResponseNew(command) == new_with_status(command, "ICCActiveSuccess", UnsupportedCommand)

\* Response::new_with_error(ResponseMessageHeader::new(command, status, error))
new_with_error(command, status, error) == new_with_status(command, status, error)

\* set_status that leaves the response as it is
set_status_ignored(resp, status, error) == resp

\* Response::set_status
set_status(resp, status, error) ==
    IF resp.variant = "UnsupportedCommand" THEN resp
    ELSE [ resp EXCEPT !.bStatus = status, !.bError = error ]

\* the variants Response::append accepts; on any other it returns Err(())
CanAppend(resp) == resp.variant \in { "DataBlock", "Parameters", "Escape" }

\* Response::append, on a variant that carries data (the u32 sum cannot
\* wrap: dwLength starts at 0 and PC/SC data is at most 65536 bytes long)
append(resp, data) ==
    IF CanAppend(resp)
    THEN [ resp EXCEPT !.abData = @ \o data, !.dwLength = @ + Len(data) ]
    ELSE resp

\* a header padded to 10 common bytes before the status and error bytes
EncodeHeaderPadded(resp) ==
    << resp.bMessageType >> \o LE32Bytes(resp.dwLength)
        \o << resp.bSlot, resp.bSeq, 0, 0, 0, StatusByte(resp.bStatus),
              ErrorByte(resp.bError) >>

\* ResponseMessageHeader::encode after CommonMessageHeader::encode
EncodeHeader(resp) ==
    << resp.bMessageType >> \o LE32Bytes(resp.dwLength)
        \o << resp.bSlot, resp.bSeq, StatusByte(resp.bStatus), ErrorByte(resp.bError) >>

\* Response::encode
Encode(resp) ==
    CASE resp.variant = "DataBlock" ->
            EncodeHeader(resp) \o << resp.bChainParameter >> \o resp.abData
      [] resp.variant = "SlotStatus" ->
            EncodeHeader(resp) \o << resp.bClockStatus >>
      [] resp.variant = "Parameters" ->
            EncodeHeader(resp) \o << resp.bProtocolNum >> \o resp.abData
      [] resp.variant = "Escape" ->
            EncodeHeader(resp) \o resp.abData
      [] resp.variant = "DataRateAndClockFrequency" ->
            EncodeHeader(resp) \o LE32Bytes(resp.dwDataRate)
                \o LE32Bytes(resp.dwClockFrequency)
      [] resp.variant = "UnsupportedCommand" ->
            EncodeHeader(resp) \o << 0 >>

(***************************************************************************)
(* CCIDInterfaceHandler::new: ATR -> CCID parameter block                  *)
(***************************************************************************)
\* Option<Vec<u8>>
None == [ is_some |-> FALSE, v |-> << >> ]
Some(x) == [ is_some |-> TRUE, v |-> x ]

\* (x & 0xF0) >> 4
HighNibble(x) == (x \div 16) % 16

\* mutants of tcckst1 and tc1_offset: the 0x10 bit left out; the offsets of
\* the two Y1 nibbles exchanged
tcckst1_without_0x10(tc1, direct_convention) ==
    (tc1 % 2) + (IF direct_convention THEN 0 ELSE 2)

tc1_offset_exchanged(y1, ta1_offset) ==
    IF y1 = 13 THEN ta1_offset + 2 ELSE ta1_offset + 1

\* tcckst1 of the closure: match (tc1 & 0x01 == 0x01, !direct_convention)
\* { .. } | 0x10
tcckst1(tc1, direct_convention) ==
    16 + (CASE tc1 % 2 = 1 /\ ~direct_convention -> 3
            [] tc1 % 2 = 1 /\ direct_convention -> 1
            [] tc1 % 2 = 0 /\ ~direct_convention -> 2
            [] OTHER -> 0)

\* tc1_offset of the closure for the two Y1 nibbles that do not return None
tc1_offset(y1, ta1_offset) ==
    IF y1 = 13 THEN ta1_offset + 1 ELSE ta1_offset + 2

\* the closure computing `parameter'; at(i) is atr[i] with the source's
\* 0-based offsets
ParseATR(atr) ==
    LET at(i) == atr[i + 1]
        n == Len(atr)
        y1 == HighNibble(at(1))
        ta1_offset == 2
        tc1_off == tc1_offset(y1, ta1_offset)
        td1_offset == tc1_off + 1
        y2 == HighNibble(at(td1_offset))
        td2_offset ==
            CASE y2 \in { 8, 12 } -> td1_offset + 1
              [] y2 \in { 9, 10 } -> td1_offset + 2
              [] y2 \in { 11, 13, 14 } -> td1_offset + 3
              [] y2 = 15 -> td1_offset + 4
              [] OTHER -> 0
        y3 == HighNibble(at(td2_offset))
        direct_convention == at(0) = 59
        tc1 == at(tc1_off)
    IN  IF at(0) \notin { 59, 63 } THEN None
        ELSE IF (at(1) \div 16) % 2 = 0 THEN None
        ELSE IF y1 \notin { 13, 15 } THEN None
        ELSE IF ta1_offset >= n \/ tc1_off >= n \/ td1_offset >= n THEN None
        ELSE IF y2 \notin 8..15 THEN None
        ELSE IF td2_offset >= n THEN None
        ELSE IF y3 \in { 1, 5, 9, 13, 2, 6, 10, 14 } THEN None
        ELSE IF td2_offset + 2 >= n THEN None
        ELSE Some(<< at(ta1_offset), tcckst1(tc1, direct_convention), tc1,
                     at(td2_offset + 2), 0, at(td2_offset + 1), 0 >>)

\* ATRs the reader may report at construction (each at least 2 bytes long,
\* as new() requires): one the parser accepts, one it abandons
ConstructionATRs ==
    { << 59, 247, 17, 0, 1, 129, 49, 254, 69 >>,
      << 59, 128, 128, 1, 1 >> }

(***************************************************************************)
(* State                                                                   *)
(***************************************************************************)
VARIABLES
    card,         \* CCIDInterfaceHandler.card: "Some" or "None"
    outQueue,     \* CCIDInterfaceHandler.outQueue: encoded responses
    parameter,    \* CCIDInterfaceHandler.parameter
    cardATR,      \* the ATR of the card in the reader (PC/SC backend)
    vendorInterface, \* physical device: the number of its first vendor-specific
                  \* interface, the one WebUSBInterfaceHandler::new claims
    liveHandles,  \* PC/SC backend: connected and not yet disconnected handles
    bos_descriptors, \* CanokeyVirtDeviceHandler.bos_descriptors (a OnceCell)
    vendor_handlers, \* CanokeyVirtDeviceHandler.vendor_handlers: the kind of
                  \* each child, "webusb" or "default", in insertion order
    pending,      \* headers of the accepted commands whose response is undrained
    ret,          \* what the last URB handler returned
    last,         \* what the last URB handler did
    urbLength,    \* transfer_buffer_length of the last URB
    webPc,        \* the task serving a WebUSB URB: "idle", "dropped", "in_flight"
    webJob,       \* the control transfer that task forwards
    ccidPc,       \* each task serving a Bulk OUT URB: "idle", "handling", "transmit"
    ccidJob,      \* the frame and the PC/SC answers of each such task
    hidDevices,   \* the raw-HID devices hidapi enumerates, in order
    fidoDevice,   \* FIDOInterfaceHandler.device: None before construction
    mutex,        \* for each handler the task holding its Mutex, 0 when free
    urbPc         \* for each task the lock and unlock calls left in its URB

vars == << card, outQueue, parameter, cardATR, liveHandles, bos_descriptors,
          vendor_handlers, vendorInterface, pending, ret, last, urbLength, webPc,
          webJob, ccidPc, ccidJob, hidDevices, fidoDevice, mutex, urbPc >>

\* the FIDO handler's device and the handler mutexes
fidoAndLocks == << hidDevices, fidoDevice, mutex, urbPc >>

\* the positions of the tasks that serve URBs concurrently
tasks == << webPc, webJob, ccidPc, ccidJob >>

\* a SetupPacket
Setup(request_type, request, value, index) ==
    [ request_type |-> request_type, request |-> request, value |-> value,
      index |-> index ]

\* io::Result<Vec<u8>>
Ok(data) == [ ok |-> TRUE, err |-> "none", data |-> data ]
Err(kind) == [ ok |-> FALSE, err |-> kind, data |-> << >> ]

NoHeader == [ bMessageType |-> 0, dwLength |-> 0, bSlot |-> 0, bSeq |-> 0 ]

\* no Response value
NoResponse == MkResponse("none", NoHeader, 0, "ICCActiveSuccess", UnsupportedCommand)

\* the record of one URB's handling; resp is the Response a Bulk OUT encoded,
\* error the SlotErrorRegister of the CommandError Command::decode returned,
\* vendor whether a device URB was of the Vendor control type, invoked the
\* vendor children whose handle_device_urb it called, each with its result,
\* setup the SetupPacket of a WebUSB URB that was forwarded, collected the
\* fragments get_device_capability_descriptors returned to the BOS closure
Log(op, req, decoded, header, cardBefore, calls, pushed, dropCard, transfers) ==
    [ op |-> op, req |-> req, decoded |-> decoded, header |-> header,
      cardBefore |-> cardBefore, calls |-> calls, pushed |-> pushed,
      dropCard |-> dropCard, transfers |-> transfers, resp |-> NoResponse,
      error |-> << "none", 0 >>, vendor |-> FALSE, invoked |-> << >>,
      setup |-> Setup(0, 0, 0, 0), collected |-> << >> ]

(***************************************************************************)
(* CCIDInterfaceHandler::handle_urb, Bulk OUT                              *)
(***************************************************************************)
\* what handling one decoded command does: the card afterwards, the PC/SC
\* calls made, the response built, handles opened and closed, and whether an
\* unwrap() panicked
Outcome(c, calls, resp, opened, closed, panic) ==
    [ card |-> c, calls |-> calls, resp |-> resp, opened |-> opened,
      closed |-> closed, panic |-> panic ]

\* drop_card that keeps the handle
drop_card_keeps(c) == [ card |-> c, calls |-> << >>, closed |-> 0 ]

\* drop_card: the card afterwards, the PC/SC calls made and the handles closed
drop_card(c) ==
    IF c = "Some"
    THEN [ card |-> "None", calls |-> << "disconnect" >>, closed |-> 1 ]
    ELSE [ card |-> c, calls |-> << >>, closed |-> 0 ]

\* a first gate that lets every command through
CardGateNeverCloses(c, h) == FALSE

\* the first gate: no card, and not PowerOn, PowerOff or GetSlotStatus
CardGateCloses(c, h) ==
    /\ c = "None"
    /\ h.bMessageType # PC_to_RDR_IccPowerOn
    /\ h.bMessageType # PC_to_RDR_IccPowerOff
    /\ h.bMessageType # PC_to_RDR_GetSlotStatus

\* no slot check
SlotNeverMissing(h) == FALSE

\* the second gate: cmd.get_header().bSlot != 0x0
SlotMissing(h) == h.bSlot # 0

\* PowerOn that always connects
NeedConnectAlways(c) == TRUE

\* PowerOn connects when self.card is None
NeedConnect(c) == c = "None"

\* PC_to_RDR_IccPowerOff arm
PowerOff(h, c) ==
    LET resp == ResponseNew(h)
        resp2 == IF resp.variant = "SlotStatus"
                 THEN [ resp EXCEPT !.bStatus = "ICCInactiveSuccess",
                                    !.bError = UnsupportedCommand,
                                    !.bClockStatus = 0 ]
                 ELSE resp
        dropped == drop_card(c)
    IN  Outcome(dropped.card, dropped.calls, resp2, 0, dropped.closed, FALSE)

\* PC_to_RDR_IccPowerOn arm; b is what the PC/SC backend answers
PowerOn(h, c, b, atr) ==
    LET resp == ResponseNew(h)
        failed == set_status(resp, "ICCInactiveFailure", HardwareError)
        conn == NeedConnect(c)
        calls1 == IF conn THEN << "connect" >> ELSE << >>
    IN  IF conn /\ ~b.connect
        THEN Outcome(c, calls1, failed, 0, 0, FALSE)
        ELSE IF ~b.status
        THEN Outcome("Some", calls1 \o << "status" >>, failed,
                     IF conn THEN 1 ELSE 0, 0, FALSE)
        ELSE Outcome("Some", calls1 \o << "status" >>, append(resp, atr),
                     IF conn THEN 1 ELSE 0, 0, ~CanAppend(resp))

\* an XfrBlock arm that leaves the response as Response::new made it when
\* the transaction or the transmit fails
XfrBlockNoOverride(h, abData, c, b) ==
    LET resp == ResponseNew(h)
    IN  IF h.dwLength > 0 /\ c = "Some" /\ b.tx /\ b.transmit
        THEN Outcome(c, << "begin_transaction", "transmit", "end_transaction" >>,
                     append(resp, b.apdu), 0, 0, FALSE)
        ELSE Outcome(c, << >>, resp, 0, 0, FALSE)

\* PC_to_RDR_XfrBlock arm
XfrBlock(h, abData, c, b) ==
    LET resp == ResponseNew(h)
        busy == IF resp.variant = "DataBlock"
                THEN [ resp EXCEPT !.bError = CommandSlotBusy,
                                   !.bStatus = "ICCActiveFailure" ]
                ELSE resp
    IN  IF h.dwLength > 0
        THEN IF c = "None" THEN Outcome(c, << >>, resp, 0, 0, TRUE)
             ELSE IF ~b.tx
             THEN Outcome(c, << "begin_transaction" >>, busy, 0, 0, FALSE)
             ELSE IF ~b.transmit
             THEN Outcome(c, << "begin_transaction", "transmit", "end_transaction" >>,
                          busy, 0, 0, FALSE)
             ELSE Outcome(c, << "begin_transaction", "transmit", "end_transaction" >>,
                          append(resp, b.apdu), 0, 0, ~CanAppend(resp))
        ELSE Outcome(c, << >>, resp, 0, 0, FALSE)

\* a GetParameters arm that appends nothing
GetParametersEmpty(h, c, param) == Outcome(c, << >>, ResponseNew(h), 0, 0, FALSE)

\* PC_to_RDR_GetParameters arm
GetParameters(h, c, param) ==
    IF param.is_some
    THEN LET resp == ResponseNew(h)
             t1 == IF resp.variant = "Parameters"
                   THEN [ resp EXCEPT !.bProtocolNum = 1 ] ELSE resp
         IN  Outcome(c, << >>, append(t1, param.v), 0, 0,
                     resp.variant # "Parameters" \/ ~CanAppend(t1))
    ELSE Outcome(c, << >>,
                 new_with_error(h, "ICCActiveFailure", UnsupportedCommand),
                 0, 0, FALSE)

\* a GetSlotStatus arm that lets go of the handle
GetSlotStatusDropsCard(h, c) ==
    Outcome("None", << >>,
            set_status(ResponseNew(h), "ICCInactiveSuccess", UnsupportedCommand),
            0, 0, FALSE)

\* a GetSlotStatus arm that connects to the card again
GetSlotStatusReconnects(h, c) ==
    Outcome("Some", IF c = "None" THEN << "connect" >> ELSE << >>, ResponseNew(h),
            IF c = "None" THEN 1 ELSE 0, 0, FALSE)

\* GetSlotStatus that reports the status Response::new sets
GetSlotStatusNoOverride(h, c) == Outcome(c, << >>, ResponseNew(h), 0, 0, FALSE)

\* PC_to_RDR_GetSlotStatus arm
GetSlotStatus(h, c) ==
    LET resp == ResponseNew(h)
    IN  Outcome(c, << >>,
                IF c = "None"
                THEN set_status(resp, "ICCInactiveSuccess", UnsupportedCommand)
                ELSE resp,
                0, 0, FALSE)

\* the code after a successful decode: the two gates, then the match on cmd
Dispatch(d, c, param, b, atr) ==
    LET h == d.header
        t == h.bMessageType
    IN  IF CardGateCloses(c, h)
        THEN Outcome(c, << >>,
                     new_with_error(h, "ICCAbsentFailure", InvalidParameter(5)),
                     0, 0, FALSE)
        ELSE IF SlotMissing(h)
        THEN Outcome(c, << >>,
                     new_with_error(h, "ICCAbsentFailure", InvalidParameter(5)),
                     0, 0, FALSE)
        ELSE CASE t = PC_to_RDR_Abort -> Outcome(c, << >>, ResponseNew(h), 0, 0, FALSE)
               [] t = PC_to_RDR_GetSlotStatus -> GetSlotStatus(h, c)
               [] t = PC_to_RDR_IccPowerOff -> PowerOff(h, c)
               [] t = PC_to_RDR_IccPowerOn -> PowerOn(h, c, b, atr)
               [] t = PC_to_RDR_XfrBlock -> XfrBlock(h, d.abData, c, b)
               [] t = PC_to_RDR_GetParameters -> GetParameters(h, c, param)
               [] OTHER ->
                    Outcome(c, << >>,
                            new_with_error(h, "ICCActiveFailure", UnsupportedCommand),
                            0, 0, FALSE)

\* the shortest frame the Bulk OUT arm decodes
MinFrameLen == 10

\* a push at the front of the queue
PushFront(q, frame) == << frame >> \o q

\* outQueue.push_back
PushBack(q, frame) == Append(q, frame)

\* the 0x01 arm of handle_urb for the request bytes req
CcidBulkOut(req, b) ==
    IF Len(req) < MinFrameLen
    THEN /\ ret' = Err("InvalidInput")
         /\ last' = Log("bulk_out", req, "short", NoHeader, card, << >>, << >>,
                        FALSE, << >>)
         /\ UNCHANGED << card, outQueue, parameter, cardATR, liveHandles, pending,
                        bos_descriptors >>
    ELSE LET d == Decode(req)
         IN  CASE d.tag = "BadCommand" ->
                    /\ ret' = Err("InvalidData")
                    /\ pending' = Append(pending, NoHeader)
                    /\ last' = Log("bulk_out", req, "BadCommand", NoHeader, card,
                                   << >>, << >>, FALSE, << >>)
                    /\ UNCHANGED << card, outQueue, parameter, cardATR,
                                    liveHandles, bos_descriptors >>
               [] d.tag = "CommandError" ->
                    LET resp == new_with_error(d.header, d.bStatus, d.bError)
                        frame == Encode(resp)
                    IN  /\ outQueue' = PushBack(outQueue, frame)
                        /\ pending' = Append(pending, d.header)
                        /\ ret' = Ok(<< >>)
                        /\ last' = [ Log("bulk_out", req, "CommandError", d.header, card,
                                         << >>, << frame >>, FALSE, << >>)
                                     EXCEPT !.resp = resp, !.error = d.bError ]
                        /\ UNCHANGED << card, parameter, cardATR, liveHandles, bos_descriptors >>
               [] d.tag = "Ok" ->
                    LET o == Dispatch(d, card, parameter, b, cardATR)
                        frame == Encode(o.resp)
                    IN  IF o.panic
                        THEN /\ ret' = Err("panic")
                             /\ pending' = Append(pending, d.header)
                             /\ last' = Log("bulk_out", req, "Ok", d.header, card,
                                            o.calls, << >>, FALSE, << >>)
                             /\ UNCHANGED << card, outQueue, parameter, cardATR,
                                             liveHandles, bos_descriptors >>
                        ELSE /\ card' = o.card
                             /\ liveHandles' = liveHandles + o.opened - o.closed
                             /\ outQueue' = PushBack(outQueue, frame)
                             /\ pending' = Append(pending, d.header)
                             /\ ret' = Ok(<< >>)
                             /\ last' = [ Log("bulk_out", req, "Ok", d.header, card,
                                              o.calls, << frame >>, FALSE, << >>)
                                          EXCEPT !.resp = o.resp ]
                             /\ UNCHANGED << parameter, cardATR, bos_descriptors >>

\* the 0x81 arm of handle_urb: outQueue.pop_front().  The log keeps the
\* header of the oldest accepted command still undrained
CcidBulkIn ==
    /\ IF outQueue = << >>
       THEN /\ ret' = Ok(<< >>)
            /\ UNCHANGED outQueue
       ELSE /\ ret' = Ok(Head(outQueue))
            /\ outQueue' = SubSeq(outQueue, 2, Len(outQueue))
    /\ pending' = SubSeq(pending, 2, Len(pending))
    /\ last' = Log("bulk_in", << >>, "none",
                   IF pending = << >> THEN NoHeader ELSE Head(pending),
                   card, << >>, << >>, FALSE, << >>)
    /\ UNCHANGED << card, parameter, cardATR, liveHandles, bos_descriptors >>

\* an ep0 branch that flushes the queue
CcidControlFlushes(request) ==
    /\ ret' = IF request # 1 THEN Err("InvalidInput") ELSE Ok(<< >>)
    /\ outQueue' = << >>
    /\ last' = Log("ccid_control", << >>, IF request = 1 THEN "Abort" ELSE "none",
                   NoHeader, card, << >>, << >>, FALSE, << >>)
    /\ UNCHANGED << card, parameter, cardATR, liveHandles, pending, bos_descriptors >>

\* the ep0 branch of handle_urb; the log tells the Abort request (0x01)
\* from the others
CcidControl(request) ==
    /\ ret' = IF request # 1 THEN Err("InvalidInput") ELSE Ok(<< >>)
    /\ last' = Log("ccid_control", << >>, IF request = 1 THEN "Abort" ELSE "none",
                   NoHeader, card, << >>, << >>, FALSE, << >>)
    /\ UNCHANGED << card, outQueue, parameter, cardATR, liveHandles, pending,
                        bos_descriptors >>

\* ep.address | (setup.request_type & 0x80) for a non-control endpoint
EndpointSelector(address, request_type) ==
    IF address >= 128 \/ (request_type \div 128) % 2 = 1
    THEN (address % 128) + 128
    ELSE address

\* handle_urb of the CCID interface: ep0, then the match on the selector
CcidHandleUrb(address, setup, req, b) ==
    IF address = 0 THEN CcidControl(setup.request)
    ELSE CASE EndpointSelector(address, setup.request_type) = 129 -> CcidBulkIn
           [] EndpointSelector(address, setup.request_type) = 1 -> CcidBulkOut(req, b)
           [] OTHER ->
                /\ ret' = Ok(<< >>)
                /\ last' = Log("ccid_other", << >>, "none", NoHeader, card, << >>,
                               << >>, FALSE, << >>)
                /\ UNCHANGED << card, outQueue, parameter, cardATR, liveHandles,
                                pending, bos_descriptors >>

(***************************************************************************)
(* ControlSetup::new (device.rs)                                           *)
(***************************************************************************)
\* StandardRequest::GetStatus, StandardRequest::GetDescriptor, DescriptorType::BOS
GET_STATUS == 0
GET_DESCRIPTOR == 6
BOS_TYPE == 15

\* ControlSetup::new: the parsed setup, or the io error
ControlSetupNew(setup, data) ==
    LET ct == (setup.request_type \div 32) % 4
        rc == setup.request_type % 32
    IN  IF ct = 3 \/ rc > 3
        THEN [ ok |-> FALSE, dir |-> "In", control_type |-> "Standard",
               recipient |-> "Device", request |-> 0, value |-> 0, index |-> 0,
               data |-> << >> ]
        ELSE [ ok |-> TRUE,
               dir |-> IF (setup.request_type \div 128) % 2 = 1 THEN "In" ELSE "Out",
               control_type |-> CASE ct = 0 -> "Standard" [] ct = 1 -> "Class"
                                  [] ct = 2 -> "Vendor",
               recipient |-> CASE rc = 0 -> "Device" [] rc = 1 -> "Interface"
                               [] rc = 2 -> "Endpoint" [] rc = 3 -> "Other",
               request |-> setup.request, value |-> setup.value,
               index |-> setup.index,
               data |-> IF (setup.request_type \div 128) % 2 = 1 THEN << >> ELSE data ]

\* data.truncate(transfer_buffer_length) when data is longer
Truncate(data, tbl) == IF Len(data) > tbl THEN SubSeq(data, 1, tbl) ELSE data

(***************************************************************************)
(* WebUSBInterfaceHandler (webusb.rs)                                      *)
(***************************************************************************)
\* the interface_number main.rs hands to WebUSBInterfaceHandler::new
WebUSBInterfaceNumber == 1

\* control.index &= 0xFF00; control.index |= interface_number, for an
\* Interface recipient
RewriteIndex(control) ==
    IF control.recipient = "Interface"
    THEN [ control EXCEPT !.index = (@ \div 256) * 256 + WebUSBInterfaceNumber ]
    ELSE control

\* handle_urb; r is what the physical device answers to the transfer
WebUSBHandleUrb(setup, tbl, req, r) ==
    LET control == ControlSetupNew(setup, req)
        fwd == RewriteIndex(control)
        dropped == drop_card(card)
    IN  /\ IF ~control.ok
           THEN /\ ret' = Err("InvalidInput")
                /\ last' = Log("webusb_urb", << >>, "none", NoHeader, card, << >>,
                               << >>, FALSE, << >>)
                /\ UNCHANGED << card, liveHandles >>
           ELSE IF control.dir = "In" /\ control.request = GET_STATUS
           THEN /\ ret' = Ok(<< 0, 0 >>)
                /\ last' = Log("webusb_urb", << >>, "none", NoHeader, card, << >>,
                               << >>, FALSE, << >>)
                /\ UNCHANGED << card, liveHandles >>
           ELSE /\ card' = dropped.card
                /\ liveHandles' = liveHandles - dropped.closed
                /\ ret' = IF ~r.ok THEN Err("io")
                          ELSE IF control.dir = "In" THEN Ok(Truncate(r.data, tbl))
                          ELSE Ok(<< >>)
                /\ last' = [ Log("webusb_urb", req, "none", NoHeader, card,
                                 dropped.calls, << >>, TRUE, << fwd >>)
                              EXCEPT !.setup = setup ]
        /\ UNCHANGED << outQueue, parameter, cardATR, pending, bos_descriptors >>

\* handle_device_urb: what it returns and the transfer it issues
WebUSBHandleDeviceUrb(setup, tbl, req, r) ==
    LET control == ControlSetupNew(setup, req)
    IN  IF ~control.ok
        THEN [ ret |-> Err("InvalidInput"), transfers |-> << >>, dropCard |-> FALSE ]
        ELSE [ ret |-> IF ~r.ok THEN Err("io")
                       ELSE IF control.dir = "In" THEN Ok(Truncate(r.data, tbl))
                       ELSE Ok(<< >>),
               transfers |-> << control >>, dropCard |-> FALSE ]

\* one pass of the loop of get_device_capability_descriptors, `data' being
\* the bytes after the BOS header and p the 1-based place the rest starts
\* at: the place the rest starts at afterwards; Len(data) + 1 once the rest
\* is empty (break); -1 when the item is longer than the rest (return
\* Vec::new()); 0 when the item has length 0 and the rest never shrinks
LoopPass(data, p) ==
    IF p <= 0 \/ p > Len(data) THEN p
    ELSE IF Len(data) - p + 1 < data[p] THEN -1
    ELSE IF data[p] = 0 THEN 0
    ELSE p + data[p]

\* k passes of the loop from p (evaluated by halves, which keeps the
\* evaluation shallow)
RECURSIVE LoopPasses(_, _, _)
LoopPasses(data, p, k) ==
    IF k = 0 \/ p <= 0 \/ p > Len(data) THEN p
    ELSE IF k = 1 THEN LoopPass(data, p)
    ELSE LET half == LoopPasses(data, p, k \div 2)
         IN  IF half <= 0 \/ half > Len(data) THEN half
             ELSE LoopPasses(data, half, k - k \div 2)

\* what k passes from p push onto capability_descriptors
RECURSIVE Pushed(_, _, _)
Pushed(data, p, k) ==
    IF k = 0 \/ p <= 0 \/ p > Len(data) THEN << >>
    ELSE IF k = 1
    THEN IF LoopPass(data, p) > 0 THEN << SubSeq(data, p, p + data[p] - 1) >>
         ELSE << >>
    ELSE LET half == LoopPasses(data, p, k \div 2)
         IN  IF half <= 0 \/ half > Len(data) THEN Pushed(data, p, k \div 2)
             ELSE Pushed(data, p, k \div 2) \o Pushed(data, half, k - k \div 2)

\* the loop run to its end (each pass that continues consumes a byte or
\* more, so Len(data) passes reach it).  ok = FALSE: an item is longer than
\* the rest.  ends = FALSE: an item of length 0, the loop never ends
WalkCapabilities(data, acc) ==
    LET end == LoopPasses(data, 1, Len(data))
    IN  IF end = -1 THEN [ ok |-> FALSE, ends |-> TRUE, frags |-> << >> ]
        ELSE IF end = 0 THEN [ ok |-> FALSE, ends |-> FALSE, frags |-> acc ]
        ELSE [ ok |-> TRUE, ends |-> TRUE,
               frags |-> acc \o Pushed(data, 1, Len(data)) ]

\* get_device_capability_descriptors; bos is the fetch result
GetDeviceCapabilityDescriptors(bos) ==
    LET empty == [ ok |-> FALSE, ends |-> TRUE, frags |-> << >> ]
    IN  IF ~bos.ok THEN empty
        ELSE IF Len(bos.data) < 5 \/ bos.data[1] # 5 \/ bos.data[2] # BOS_TYPE
        THEN empty
        ELSE IF bos.data[5] = 0 THEN empty
        ELSE IF bos.data[3] + 256 * bos.data[4] # Len(bos.data) THEN empty
        ELSE WalkCapabilities(SubSeq(bos.data, 6, Len(bos.data)), << >>)

(***************************************************************************)
(* CanokeyVirtDeviceHandler::handle_urb (device.rs)                        *)
(***************************************************************************)
\* the fragments one after another (joined by halves)
RECURSIVE Concat(_)
Concat(ss) ==
    IF Len(ss) = 0 THEN << >>
    ELSE IF Len(ss) = 1 THEN ss[1]
    ELSE Concat(SubSeq(ss, 1, Len(ss) \div 2))
            \o Concat(SubSeq(ss, Len(ss) \div 2 + 1, Len(ss)))

\* the default descriptor of the get_or_init closure
DefaultBOS == << 5, BOS_TYPE, 5, 0, 0 >>

\* the closure without the check of the number of fragments
BuildBOSUnchecked(frags) ==
    LET total_length == 5 + Len(Concat(frags))
    IN  IF total_length > 65535 THEN DefaultBOS
        ELSE << 5, BOS_TYPE, total_length % 256, total_length \div 256,
                Len(frags) % 256 >> \o Concat(frags)

\* the get_or_init closure: the aggregated BOS descriptor for the fragments
\* the vendor children contribute (len() as u8 keeps the low byte)
BuildBOS(frags) ==
    LET total_length == 5 + Len(Concat(frags))
    IN  IF total_length > 65535 THEN DefaultBOS
        ELSE IF Len(frags) > 255 THEN DefaultBOS
        ELSE << 5, BOS_TYPE, total_length % 256, total_length \div 256,
                Len(frags) % 256 >> \o Concat(frags)

\* a cell that runs the closure on every call
get_or_init_always(cell, frags) == BuildBOS(frags)

\* OnceCell::get_or_init: the stored value, or the closure's on first use
get_or_init(cell, frags) == IF cell.is_some THEN cell.v ELSE BuildBOS(frags)

\* UsbInterfaceHandler::handle_device_urb as the trait provides it
\* (interface.rs): Unsupported, no transfer
DefaultHandleDeviceUrb ==
    [ ret |-> Err("Unsupported"), transfers |-> << >>, dropCard |-> FALSE ]

\* the loop that goes on to the next child after an Ok as well, and returns
\* the last Ok
RECURSIVE VendorLoopLastWins(_, _, _, _, _, _)
VendorLoopLastWins(handlers, i, setup, tbl, req, rs) ==
    IF i > Len(handlers)
    THEN [ ret |-> Err("InvalidData"), invoked |-> << >>, transfers |-> << >>,
           dropCard |-> FALSE ]
    ELSE LET c == IF handlers[i] = "webusb"
                  THEN WebUSBHandleDeviceUrb(setup, tbl, req, rs[i])
                  ELSE DefaultHandleDeviceUrb
             rest == VendorLoopLastWins(handlers, i + 1, setup, tbl, req, rs)
         IN  [ ret |-> IF rest.ret.ok \/ ~c.ret.ok THEN rest.ret ELSE c.ret,
               invoked |-> << [ child |-> i, ret |-> c.ret ] >> \o rest.invoked,
               transfers |-> c.transfers \o rest.transfers,
               dropCard |-> c.dropCard \/ rest.dropCard ]

\* the loop over vendor_handlers from child i on: each child's
\* handle_device_urb in insertion order, returning at the first Ok; rs[i] is
\* what the physical device answers to the transfer child i forwards
RECURSIVE VendorLoop(_, _, _, _, _, _)
VendorLoop(handlers, i, setup, tbl, req, rs) ==
    IF i > Len(handlers)
    THEN [ ret |-> Err("InvalidData"), invoked |-> << >>, transfers |-> << >>,
           dropCard |-> FALSE ]
    ELSE LET c == IF handlers[i] = "webusb"
                  THEN WebUSBHandleDeviceUrb(setup, tbl, req, rs[i])
                  ELSE DefaultHandleDeviceUrb
             rest == VendorLoop(handlers, i + 1, setup, tbl, req, rs)
         IN  IF c.ret.ok
             THEN [ ret |-> c.ret, invoked |-> << [ child |-> i, ret |-> c.ret ] >>,
                    transfers |-> c.transfers, dropCard |-> c.dropCard ]
             ELSE [ ret |-> rest.ret,
                    invoked |-> << [ child |-> i, ret |-> c.ret ] >> \o rest.invoked,
                    transfers |-> c.transfers \o rest.transfers,
                    dropCard |-> c.dropCard \/ rest.dropCard ]

\* capability_descriptors of the get_or_init closure: what each child's
\* get_device_capability_descriptors returns, one after another (the trait's
\* default returns none); bos is the physical device's answer to each fetch
RECURSIVE ChildrenCapabilities(_, _, _)
ChildrenCapabilities(handlers, i, bos) ==
    IF i > Len(handlers) THEN [ ok |-> TRUE, ends |-> TRUE, frags |-> << >> ]
    ELSE LET c == IF handlers[i] = "webusb" THEN GetDeviceCapabilityDescriptors(bos)
                  ELSE [ ok |-> TRUE, ends |-> TRUE, frags |-> << >> ]
             rest == ChildrenCapabilities(handlers, i + 1, bos)
         IN  [ ok |-> c.ok /\ rest.ok, ends |-> c.ends /\ rest.ends,
               frags |-> c.frags \o rest.frags ]

\* handle_urb of the device handler; rs[i] is the physical device's answer to
\* the transfer vendor child i forwards, bos its answer to the BOS fetch
DeviceHandleUrb(setup, tbl, req, rs, bos) ==
    LET control == ControlSetupNew(setup, req)
        child == VendorLoop(vendor_handlers, 1, setup, tbl, req, rs)
        vendor == control.ok /\ control.control_type = "Vendor"
        isBOS == /\ control.dir = "In" /\ control.control_type = "Standard"
                 /\ control.recipient = "Device" /\ control.request = GET_DESCRIPTOR
                 /\ (control.value \div 256) % 256 = BOS_TYPE
        caps == ChildrenCapabilities(vendor_handlers, 1, bos)
        built == get_or_init(bos_descriptors, caps.frags)
        served == control.ok /\ ~(vendor /\ child.ret.ok) /\ isBOS
                  /\ ~(control.request = GET_STATUS)
    IN  /\ last' = [ Log("device_urb",
                         IF served /\ bos.ok THEN bos.data ELSE << >>,
                         IF ~served THEN "none"
                         ELSE IF bos_descriptors.is_some THEN "cached"
                         ELSE IF caps.ends THEN "built" ELSE "hang",
                         NoHeader, card, << >>, << >>,
                         IF vendor THEN child.dropCard ELSE FALSE,
                         IF vendor THEN child.transfers ELSE << >>)
                      EXCEPT !.vendor = vendor,
                             !.invoked = IF vendor THEN child.invoked ELSE << >>,
                             !.collected =
                                 IF served /\ ~bos_descriptors.is_some /\ caps.ends
                                 THEN caps.frags ELSE << >> ]
        /\ IF ~control.ok
           THEN ret' = Err("InvalidInput") /\ UNCHANGED bos_descriptors
           ELSE IF vendor /\ child.ret.ok
           THEN ret' = child.ret /\ UNCHANGED bos_descriptors
           ELSE IF control.dir = "In" /\ control.control_type = "Standard"
                   /\ control.request = GET_STATUS
           THEN ret' = Ok(<< 0, 0 >>) /\ UNCHANGED bos_descriptors
           ELSE IF isBOS /\ ~bos_descriptors.is_some /\ ~caps.ends
           THEN ret' = Err("hang") /\ UNCHANGED bos_descriptors
           ELSE IF isBOS
           THEN ret' = Ok(built) /\ bos_descriptors' = Some(built)
           ELSE ret' = Err("InvalidData") /\ UNCHANGED bos_descriptors
        /\ UNCHANGED << card, outQueue, parameter, cardATR, liveHandles, pending >>

(***************************************************************************)
(* Inputs                                                                  *)
(***************************************************************************)
\* a Bulk OUT frame: the 7 header bytes (dwLength below 256), then the body
Frame(t, len, slot, seq, body) == << t, len, 0, 0, 0, slot, seq >> \o body

\* the (slot, seq) pairs of the frames explored under Spec
SlotSeqs == { << 0, 1 >>, << 1, 1 >> }

\* one well-formed frame of each of the 14 command types (an XfrBlock with
\* and without payload), and a frame of unknown type 0x77
WellFormed(slot, seq) ==
    { Frame(t, 0, slot, seq, << 0, 0, 0 >>) :
        t \in { PC_to_RDR_IccPowerOn, PC_to_RDR_IccPowerOff, PC_to_RDR_GetSlotStatus,
                PC_to_RDR_XfrBlock, PC_to_RDR_GetParameters, PC_to_RDR_ResetParameters,
                PC_to_RDR_SetParameters, PC_to_RDR_Escape, PC_to_RDR_IccClock,
                PC_to_RDR_T0APDU, PC_to_RDR_Secure, PC_to_RDR_Abort, 119 } }
    \cup { Frame(PC_to_RDR_Mechanical, 0, slot, seq, << 1, 0, 0 >>),
           Frame(PC_to_RDR_XfrBlock, 2, slot, seq, << 0, 0, 0, 0, 164 >>),
           Frame(PC_to_RDR_SetDataRateAndClockFrequency, 8, slot, seq,
                 << 0, 0, 0, 0, 0, 0, 0, 0, 0, 0, 0 >>) }

\* frames of at least 10 bytes that Command::decode rejects
Malformed(slot, seq) ==
    { Frame(PC_to_RDR_IccPowerOn, 1, slot, seq, << 0, 0, 0 >>),
      Frame(PC_to_RDR_IccPowerOff, 0, slot, seq, << 0, 0, 0, 0 >>) }
    \cup (IF slot # 0 THEN { }
          ELSE { Frame(PC_to_RDR_IccPowerOn, 0, slot, seq, << 9, 0, 0 >>),
                 Frame(PC_to_RDR_SetParameters, 0, slot, seq, << 2, 0, 0 >>),
                 Frame(PC_to_RDR_XfrBlock, 2, slot, seq, << 0, 0, 0, 164 >>),
                 Frame(PC_to_RDR_SetDataRateAndClockFrequency, 8, slot, seq,
                       << 0, 0, 0, 0, 0, 0, 0 >>) })

\* frames shorter than 10 bytes
Short ==
    { << >>, << PC_to_RDR_GetSlotStatus, 0, 0, 0, 0, 0, 1, 0, 0 >> }

\* the Bulk OUT frames explored under Spec
Frames ==
    UNION { WellFormed(p[1], p[2]) \cup Malformed(p[1], p[2]) : p \in SlotSeqs }
        \cup Short

\* the Bulk OUT frames explored under SpecFifo: few shapes, two sequence
\* numbers
FifoFrames ==
    UNION { { Frame(PC_to_RDR_GetSlotStatus, 0, 0, q, << 0, 0, 0 >>),
              Frame(PC_to_RDR_IccPowerOn, 0, 0, q, << 0, 0, 0 >>),
              Frame(PC_to_RDR_IccPowerOff, 1, 0, q, << 0, 0, 0 >>),
              Frame(119, 0, 1, q, << 0, 0, 0 >>) } : q \in 1..2 }
        \cup { << PC_to_RDR_GetSlotStatus, 0, 0, 0, 0, 0, 1, 0, 0 >> }

\* the Bulk OUT frames explored under SpecCtl
CtlFrames ==
    { Frame(PC_to_RDR_IccPowerOn, 0, 0, 1, << 0, 0, 0 >>),
      Frame(PC_to_RDR_XfrBlock, 2, 0, 1, << 0, 0, 0, 0, 164 >>) }

\* the APDUs SCardTransmit may return
APDUs == { << 144, 0 >>, << 1, 2, 144, 0 >> }

\* the answers of the PC/SC backend that matter to a frame of type t
BackendChoices(t) ==
    CASE t = PC_to_RDR_IccPowerOn ->
            [ connect : BOOLEAN, status : BOOLEAN, tx : { TRUE },
              transmit : { TRUE }, apdu : { << 144, 0 >> } ]
      [] t = PC_to_RDR_XfrBlock ->
            [ connect : { TRUE }, status : { TRUE }, tx : BOOLEAN,
              transmit : BOOLEAN, apdu : APDUs ]
      [] OTHER ->
            [ connect : { TRUE }, status : { TRUE }, tx : { TRUE },
              transmit : { TRUE }, apdu : { << 144, 0 >> } ]

\* the setup packets of the control URBs explored under SpecCtl: standard,
\* vendor and reserved control types, device and interface recipients, both
\* directions
Setups ==
    { Setup(rt, rq, BOS_TYPE * 256, 512 + 5) :
        rt \in { 128, 192, 64, 193, 65, 96 }, rq \in { GET_STATUS, GET_DESCRIPTOR } }

\* the setup packets of the WebUSB URBs explored under Spec and SpecFifo: a
\* GetStatus and a vendor transfer
FewSetups ==
    { Setup(129, GET_STATUS, 0, 1), Setup(65, 1, 0, 1) }

\* transfer_buffer_length of a control URB
BufferLengths == { 1, 64 }

\* what the physical device answers to a forwarded control transfer
DeviceAnswers ==
    { [ ok |-> FALSE, data |-> << >> ], [ ok |-> TRUE, data |-> << 7, 8 >> ] }

\* BOS descriptors of the physical device explored under SpecBos: the fetch
\* fails; one capability; two; an item longer than the rest; an item of
\* length 0; 256 one-byte capabilities; 4 bytes; a first byte that is not 5;
\* a type that is not BOS; a total_length that is not the length; a count of
\* 0; a count that is not the number of items
BosInputs ==
    { [ ok |-> FALSE, data |-> << >> ],
      [ ok |-> TRUE, data |-> << 5, 15, 4, 0 >> ],
      [ ok |-> TRUE, data |-> << 4, 15, 8, 0, 1, 3, 16, 5 >> ],
      [ ok |-> TRUE, data |-> << 5, 16, 8, 0, 1, 3, 16, 5 >> ],
      [ ok |-> TRUE, data |-> << 5, 15, 9, 0, 1, 3, 16, 5 >> ],
      [ ok |-> TRUE, data |-> << 5, 15, 8, 0, 0, 3, 16, 5 >> ],
      [ ok |-> TRUE, data |-> << 5, 15, 8, 0, 7, 3, 16, 5 >> ],
      [ ok |-> TRUE, data |-> << 5, 15, 8, 0, 1, 3, 16, 5 >> ],
      [ ok |-> TRUE, data |-> << 5, 15, 10, 0, 2, 3, 16, 5, 2, 16 >> ],
      [ ok |-> TRUE, data |-> << 5, 15, 8, 0, 1, 4, 16, 5 >> ],
      [ ok |-> TRUE, data |-> << 5, 15, 6, 0, 1, 0 >> ],
      [ ok |-> TRUE, data |-> << 5, 15, 5, 1, 255 >> \o [ i \in 1..256 |-> 1 ] ] }

\* the setup packets of the device URBs explored under SpecBos: the BOS
\* GetDescriptor, a GetStatus and a vendor request
BosSetups ==
    { Setup(128, GET_DESCRIPTOR, BOS_TYPE * 256, 0), Setup(128, GET_STATUS, 0, 0),
      Setup(192, GET_DESCRIPTOR, BOS_TYPE * 256, 0) }

\* what the physical device answers to the BOS fetch, outside SpecBos: the
\* fetch fails, or one capability
PhysicalBOS ==
    { [ ok |-> FALSE, data |-> << >> ],
      [ ok |-> TRUE, data |-> << 5, 15, 8, 0, 1, 3, 16, 5 >> ] }

\* an ATR with its interface bytes where the closure of new() looks for
\* them: TS, T0 with Y1 = y1, TA1, TB1 when Y1 = F, TC1, TD1 with Y2 = y2, the
\* bytes the closure steps over, TD2 with Y3 = y3, then two more bytes
AtrOf(ts, y1, y2, y3) ==
    << ts, y1 * 16, 17 >> \o (IF y1 = 15 THEN << 0 >> ELSE << >>)
        \o << 1, y2 * 16 + 1 >>
        \o (CASE y2 \in { 9, 10 } -> << 0 >>
              [] y2 \in { 11, 13, 14 } -> << 0, 0 >>
              [] y2 = 15 -> << 0, 0, 0 >>
              [] OTHER -> << >>)
        \o << y3 * 16 + 1, 18, 69 >>

\* the ATRs explored under SpecAtr: each TS, Y1, Y2 and Y3 shape the closure
\* tells apart, whole and one byte short
AtrInputs ==
    UNION { { AtrOf(ts, y1, y2, y3),
              SubSeq(AtrOf(ts, y1, y2, y3), 1, Len(AtrOf(ts, y1, y2, y3)) - 1) } :
            ts \in { 59, 63, 0 }, y1 \in { 5, 8, 13, 15 },
            y2 \in { 0, 8, 9, 12, 15 }, y3 \in { 0, 3, 5, 8, 14, 15 } }

\* the GetParameters frames explored under SpecAtr
AtrFrames == { Frame(PC_to_RDR_GetParameters, 0, 0, q, << 0, 0, 0 >>) : q \in 1..2 }

(***************************************************************************)
(* Specification                                                           *)
(***************************************************************************)
\* the state CCIDInterfaceHandler::new and CanokeyVirtDeviceHandler::new leave
\* the tasks that may serve Bulk OUT URBs at the same time (one per client
\* connection)
Tasks == 1..NumTasks

\* the vendor and product id main() looks the physical device up by, and
\* the usage page FIDOInterfaceHandler::new looks for
CanokeyVendorId == 8352
CanokeyProductId == 17108
FidoUsagePage == 61904

\* the FIDO interface of the physical device, as hidapi enumerates it
CanokeyHid ==
    [ vendor_id |-> CanokeyVendorId, product_id |-> CanokeyProductId,
      usage_page |-> FidoUsagePage ]

\* the handlers main() puts behind a Mutex each
Handlers == { "device", "webusb", "ccid", "fido" }

\* no frame in hand
NoJob == [ req |-> << >>, b |-> CHOOSE b \in BackendChoices(0) : TRUE ]

\* the handler constructed over a card whose ATR is atr
ConstructWith(atr, handlers, claimed) ==
    /\ cardATR = atr
    /\ vendorInterface = claimed
    /\ urbLength = 0
    /\ webPc = "idle"
    /\ webJob = Setup(0, 0, 0, 0)
    /\ ccidPc = [ t \in Tasks |-> "idle" ]
    /\ ccidJob = [ t \in Tasks |-> NoJob ]
    /\ parameter = ParseATR(cardATR)
    /\ card = "Some"
    /\ liveHandles = 1
    /\ outQueue = << >>
    /\ pending = << >>
    /\ bos_descriptors = None
    /\ vendor_handlers = handlers
    /\ ret = Ok(<< >>)
    /\ last = Log("init", << >>, "none", NoHeader, "None", << "connect" >>, << >>,
                  FALSE, << >>)
    /\ hidDevices = << CanokeyHid >>
    /\ fidoDevice = Some(CanokeyHid)
    /\ mutex = [ h \in Handlers |-> 0 ]
    /\ urbPc = [ t \in 1..NumUrbTasks |-> << >> ]

\* main(): the device handler is given the WebUSB handler as its one vendor
\* child, over a physical device whose vendor-specific interface has the
\* number main() gives the WebUSB handler
Construct(atr) == ConstructWith(atr, << "webusb" >>, WebUSBInterfaceNumber)

Init == \E atr \in ConstructionATRs : Construct(atr)

\* the transfer_buffer_length of the URBs whose handler ignores it: the
\* wMaxPacketSize of the bulk endpoints
BulkLength == 512

\* the setup packet of a bulk URB: all zero
ZeroSetup == Setup(0, 0, 0, 0)

\* a URB on the Bulk OUT endpoint 0x01
BulkOutURB ==
    /\ Len(outQueue) < MaxQueue
    /\ \E req \in Frames :
         \E b \in BackendChoices(IF req = << >> THEN 0 ELSE req[1]) :
            CcidHandleUrb(1, ZeroSetup, req, b)
    /\ urbLength' = BulkLength
    /\ UNCHANGED << tasks, vendor_handlers, vendorInterface, fidoAndLocks >>

\* the same under the inputs of SpecFifo
BulkOutFifoURB ==
    /\ Len(outQueue) < MaxFifoQueue
    /\ \E req \in FifoFrames :
         \E b \in BackendChoices(IF req = << >> THEN 0 ELSE req[1]) :
            CcidHandleUrb(1, ZeroSetup, req, b)
    /\ urbLength' = BulkLength
    /\ UNCHANGED << tasks, vendor_handlers, vendorInterface, fidoAndLocks >>

\* the same under the inputs of SpecCtl
BulkOutCtlURB ==
    /\ Len(outQueue) < MaxQueue
    /\ \E req \in CtlFrames :
         \E b \in BackendChoices(req[1]) : CcidHandleUrb(1, ZeroSetup, req, b)
    /\ urbLength' = BulkLength
    /\ UNCHANGED << tasks, vendor_handlers, vendorInterface, fidoAndLocks >>

\* a URB on the Bulk IN endpoint 0x81
BulkInURB ==
    /\ CcidHandleUrb(129, ZeroSetup, << >>, NoJob.b)
    /\ urbLength' = BulkLength
    /\ UNCHANGED << tasks, vendor_handlers, vendorInterface, fidoAndLocks >>

\* a control URB on the CCID interface: Abort and GET_CLOCK_FREQUENCIES
CcidControlURB ==
    /\ \E request \in 1..2 :
          CcidHandleUrb(0, Setup(33, request, 0, 2), << >>, NoJob.b)
    /\ urbLength' = BulkLength
    /\ UNCHANGED << tasks, vendor_handlers, vendorInterface, fidoAndLocks >>

\* a control URB on the WebUSB interface
WebUSBURB ==
    /\ \E setup \in Setups, tbl \in BufferLengths, r \in DeviceAnswers :
          WebUSBHandleUrb(setup, tbl, << 1 >>, r) /\ urbLength' = tbl
    /\ UNCHANGED << tasks, vendor_handlers, vendorInterface, fidoAndLocks >>

\* the same under the inputs of Spec and SpecFifo
WebUSBFewURB ==
    /\ \E setup \in FewSetups :
          WebUSBHandleUrb(setup, 64, << 1 >>, [ ok |-> TRUE, data |-> << >> ])
    /\ urbLength' = 64
    /\ UNCHANGED << tasks, vendor_handlers, vendorInterface, fidoAndLocks >>

\* a control URB on the device
DeviceURB ==
    /\ \E setup \in Setups, tbl \in BufferLengths, r \in DeviceAnswers,
          bos \in PhysicalBOS :
          DeviceHandleUrb(setup, tbl, << 1 >>, << r >>, bos) /\ urbLength' = tbl
    /\ UNCHANGED << tasks, vendor_handlers, vendorInterface, fidoAndLocks >>

\* a control URB on the device under the inputs of SpecBos
DeviceBosURB ==
    /\ \E setup \in BosSetups, tbl \in BufferLengths, bos \in BosInputs :
          DeviceHandleUrb(setup, tbl, << 1 >>, << [ ok |-> FALSE, data |-> << >> ] >>,
                          bos)
          /\ urbLength' = tbl
    /\ UNCHANGED << tasks, vendor_handlers, vendorInterface, fidoAndLocks >>

\* the CCID bridge under every command type, with the WebUSB forwarder
\* dropping the card
Next == BulkOutURB \/ BulkInURB \/ CcidControlURB \/ WebUSBFewURB

Spec == Init /\ [][Next]_vars

\* a URB on the Bulk OUT endpoint from a host that has read every response
BulkOutDrainedURB ==
    /\ outQueue = << >>
    /\ \E req \in Frames :
         \E b \in BackendChoices(IF req = << >> THEN 0 ELSE req[1]) :
            CcidHandleUrb(1, ZeroSetup, req, b)
    /\ urbLength' = BulkLength
    /\ UNCHANGED << tasks, vendor_handlers, vendorInterface, fidoAndLocks >>

\* the card handle and the parameter block under every command type, with
\* the WebUSB forwarder dropping the card, whatever the depth of the queue
NextCard == BulkOutDrainedURB \/ BulkInURB \/ CcidControlURB \/ WebUSBFewURB

SpecCard == Init /\ [][NextCard]_vars

\* the response queue at depth
NextFifo == BulkOutFifoURB \/ BulkInURB \/ CcidControlURB \/ WebUSBFewURB

SpecFifo == Init /\ [][NextFifo]_vars

\* the response queue under a host that keeps reading the Bulk IN endpoint
NextLive == BulkOutFifoURB \/ BulkInURB

SpecLive == Init /\ [][NextLive]_vars /\ WF_vars(BulkInURB)

\* the control paths: the WebUSB forwarder and the device handler, with the
\* CCID bridge re-acquiring the card
NextCtl == BulkOutCtlURB \/ BulkInURB \/ WebUSBURB \/ DeviceURB

SpecCtl == Init /\ [][NextCtl]_vars

\* the aggregation of the BOS descriptor, beside the CCID bridge
NextBos == BulkOutCtlURB \/ BulkInURB \/ DeviceBosURB

SpecBos == Init /\ [][NextBos]_vars

\* the Bulk OUT frames explored under SpecAbort
AbortFrames ==
    { Frame(PC_to_RDR_Abort, 0, 0, q, << 0, 0, 0 >>) : q \in 1..2 }
        \cup { Frame(PC_to_RDR_GetSlotStatus, 0, 0, 3, << 0, 0, 0 >>),
               Frame(PC_to_RDR_IccPowerOff, 0, 0, 4, << 0, 0, 0 >>),
               Frame(PC_to_RDR_IccPowerOn, 0, 0, 5, << 0, 0, 0 >>) }

\* a URB on the Bulk OUT endpoint under the inputs of SpecAbort
BulkOutAbortURB ==
    /\ Len(outQueue) < MaxFifoQueue
    /\ \E req \in AbortFrames :
         \E b \in BackendChoices(req[1]) : CcidHandleUrb(1, ZeroSetup, req, b)
    /\ urbLength' = BulkLength
    /\ UNCHANGED << tasks, vendor_handlers, vendorInterface, fidoAndLocks >>

\* a control URB on the CCID interface: Abort, GET_CLOCK_FREQUENCIES,
\* GET_DATA_RATES
CcidControlAbortURB ==
    /\ \E request \in 1..3 :
          CcidHandleUrb(0, Setup(33, request, 0, 2), << >>, NoJob.b)
    /\ urbLength' = BulkLength
    /\ UNCHANGED << tasks, vendor_handlers, vendorInterface, fidoAndLocks >>

\* Abort on the bulk and on the control endpoint, with responses queued
NextAbort == BulkOutAbortURB \/ BulkInURB \/ CcidControlAbortURB

SpecAbort == Init /\ [][NextAbort]_vars

\* the message types of the frames explored under SpecDecode: the 14 command
\* types and the unknown type 0x77
DecodeTypes ==
    { PC_to_RDR_IccPowerOn, PC_to_RDR_IccPowerOff, PC_to_RDR_GetSlotStatus,
      PC_to_RDR_XfrBlock, PC_to_RDR_GetParameters, PC_to_RDR_ResetParameters,
      PC_to_RDR_SetParameters, PC_to_RDR_Escape, PC_to_RDR_IccClock,
      PC_to_RDR_T0APDU, PC_to_RDR_Secure, PC_to_RDR_Mechanical, PC_to_RDR_Abort,
      PC_to_RDR_SetDataRateAndClockFrequency, 119 }

\* the Bulk OUT frames explored under SpecDecode: every type with dwLength
\* 0, 1 or 8, with 3, 4, 5, 11 or 12 bytes after the 7-byte header, the first
\* of them (the byte an enumeration is read from) 0, 1 or 9
DecodeFrames ==
    { Frame(t, len, 0, 1, [ i \in 1..n |-> IF i = 1 THEN e ELSE 0 ]) :
        t \in DecodeTypes, len \in { 0, 1, 8 }, e \in { 0, 1, 9 },
        n \in { 3, 4, 5, 11, 12 } }

\* a URB on the Bulk OUT endpoint under the inputs of SpecDecode, sent by a
\* host that has read the response to its previous frame
BulkOutDecodeURB ==
    /\ outQueue = << >>
    /\ \E req \in DecodeFrames :
         \E b \in BackendChoices(req[1]) : CcidHandleUrb(1, ZeroSetup, req, b)
    /\ urbLength' = BulkLength
    /\ UNCHANGED << tasks, vendor_handlers, vendorInterface, fidoAndLocks >>

\* the CCID bridge under frames of every shape Command::decode tells apart
NextDecode == BulkOutDecodeURB \/ BulkInURB

SpecDecode == Init /\ [][NextDecode]_vars

\* the most vendor children a device handler is constructed with under
\* SpecVendor
MaxChildren == 2

\* the lists CanokeyVirtDeviceHandler::new may be given: handlers that
\* forward a device URB to a physical device ("webusb") and handlers that
\* keep the default handle_device_urb of the trait ("default")
VendorLists ==
    UNION { [ 1..n -> { "webusb", "default" } ] : n \in 0..MaxChildren }

\* the state after a construction with any such list
InitVendor ==
    \E atr \in ConstructionATRs, handlers \in VendorLists :
        ConstructWith(atr, handlers, WebUSBInterfaceNumber)

\* the setup packets of the device URBs explored under SpecVendor: those of
\* SpecBos (the vendor one carrying the request and value of the BOS
\* GetDescriptor), a vendor In with the request of GetStatus and a vendor Out
VendorSetups ==
    BosSetups \cup { Setup(192, GET_STATUS, 0, 0), Setup(64, 1, 0, 0) }

\* a control URB on the device, each forwarding child's physical device
\* answering on its own
DeviceVendorURB ==
    /\ \E setup \in VendorSetups, tbl \in BufferLengths, bos \in PhysicalBOS,
          rs \in [ 1..Len(vendor_handlers) -> DeviceAnswers ] :
          DeviceHandleUrb(setup, tbl, << 1 >>, rs, bos) /\ urbLength' = tbl
    /\ UNCHANGED << tasks, vendor_handlers, vendorInterface, fidoAndLocks >>

\* the device handler over every list of vendor children, beside the Bulk IN
\* endpoint
NextVendor == BulkInURB \/ DeviceVendorURB

SpecVendor == InitVendor /\ [][NextVendor]_vars

\* the numbers the first vendor-specific interface of the physical device
\* may have
PhysicalInterfaces == 0..2

\* the state after a construction over any such device
InitForward ==
    \E atr \in ConstructionATRs, claimed \in PhysicalInterfaces :
        ConstructWith(atr, << "webusb" >>, claimed)

\* the setup packets of the WebUSB URBs explored under SpecForward: standard,
\* class and vendor control types, every recipient, both directions, and
\* index values whose two bytes differ
ForwardSetups ==
    { Setup(rt, rq, v, ix) :
        rt \in { 129, 33, 193, 65, 192, 66, 67 }, rq \in { GET_STATUS, 1 },
        v \in { 770 }, ix \in { 2, 517 } }

\* a control URB on the WebUSB interface under the inputs of SpecForward
WebUSBForwardURB ==
    /\ \E setup \in ForwardSetups, req \in { << 1 >>, << 9, 9 >> },
          r \in DeviceAnswers :
          WebUSBHandleUrb(setup, 64, req, r) /\ urbLength' = 64
    /\ UNCHANGED << tasks, vendor_handlers, vendorInterface, fidoAndLocks >>

\* the WebUSB forwarder over every physical interface number, beside the
\* Bulk IN endpoint
NextForward == BulkInURB \/ WebUSBForwardURB

SpecForward == InitForward /\ [][NextForward]_vars

\* the transfer_buffer_length values of the Bulk IN URBs explored under
\* SpecBuf: shorter than any response, longer than those explored, and the
\* packet size
BulkInLengths == BufferLengths \cup { BulkLength }

\* a URB on the Bulk IN endpoint with the transfer_buffer_length the host
\* chose (handle_urb names it _transfer_buffer_length and never reads it)
BulkInLenURB ==
    /\ \E tbl \in BulkInLengths :
          CcidHandleUrb(129, ZeroSetup, << >>, NoJob.b) /\ urbLength' = tbl
    /\ UNCHANGED << tasks, vendor_handlers, vendorInterface, fidoAndLocks >>

\* the interface handlers under URBs of every transfer_buffer_length
NextBuf == BulkOutCtlURB \/ BulkInLenURB \/ WebUSBURB

SpecBuf == Init /\ [][NextBuf]_vars

(***************************************************************************)
(* The handlers under tasks that serve URBs at the same time: a task holds *)
(* the mutex of the CCID handler for the whole of its handle_urb, the      *)
(* WebUSB handler holds it for the drop_card() statement only.             *)
(***************************************************************************)
\* the Bulk OUT frames explored under SpecConc
ConcFrames ==
    { Frame(PC_to_RDR_IccPowerOn, 0, 0, 1, << 0, 0, 0 >>),
      Frame(PC_to_RDR_XfrBlock, 2, 0, 1, << 0, 0, 0, 0, 164 >>),
      Frame(PC_to_RDR_XfrBlock, 0, 0, 1, << 0, 0, 0 >>) }

\* the setup packets explored under SpecConc: a vendor In and a vendor Out
\* transfer to the interface
ConcSetups == { Setup(rt, GET_DESCRIPTOR, BOS_TYPE * 256, 512 + 5) : rt \in { 193, 65 } }

\* a mutex of the CCID handler that never excludes anybody
LockAlwaysFree(pcs) == TRUE

\* the mutex of the CCID handler is free: no task is inside its handle_urb
LockFree(pcs) == \A t \in Tasks : pcs[t] = "idle"

\* the XfrBlock arm reaches tx.transmit for this frame: the gates pass, the
\* frame carries data and SCardBeginTransaction succeeds
ReachesTransmit(job) ==
    /\ job.req[1] = PC_to_RDR_XfrBlock
    /\ card = "Some"
    /\ LE32(job.req, 2) > 0
    /\ job.b.tx

\* task t takes the mutex and enters handle_urb with a Bulk OUT frame
ConcCcidBegin(t) ==
    /\ ccidPc[t] = "idle"
    /\ LockFree(ccidPc)
    /\ Len(outQueue) < MaxQueue
    /\ \E req \in ConcFrames :
         \E b \in BackendChoices(req[1]) :
            /\ ccidJob' = [ ccidJob EXCEPT ![t] = [ req |-> req, b |-> b ] ]
            /\ last' = Log("ccid_begin", req, "none", NoHeader, card, << >>, << >>,
                           FALSE, << >>)
    /\ ccidPc' = [ ccidPc EXCEPT ![t] = "handling" ]
    /\ UNCHANGED << vendor_handlers, vendorInterface, fidoAndLocks, card, outQueue,
                    parameter, cardATR, liveHandles, bos_descriptors, pending,
                    ret, urbLength, webPc, webJob >>

\* task t is inside tx.transmit, which fills the static responseData
ConcCcidTransmit(t) ==
    /\ ccidPc[t] = "handling"
    /\ ReachesTransmit(ccidJob[t])
    /\ ccidPc' = [ ccidPc EXCEPT ![t] = "transmit" ]
    /\ last' = Log("ccid_transmit", ccidJob[t].req, "none", NoHeader, card,
                   << "transmit" >>, << >>, FALSE, << >>)
    /\ UNCHANGED << vendor_handlers, vendorInterface, fidoAndLocks, card, outQueue,
                    parameter, cardATR, liveHandles, bos_descriptors, pending,
                    ret, urbLength, webPc, webJob, ccidJob >>

\* task t pushes the response, leaves handle_urb and gives the mutex back
ConcCcidEnd(t) ==
    /\ \/ ccidPc[t] = "transmit"
       \/ ccidPc[t] = "handling" /\ ~ReachesTransmit(ccidJob[t])
    /\ CcidHandleUrb(1, ZeroSetup, ccidJob[t].req, ccidJob[t].b)
    /\ urbLength' = BulkLength
    /\ ccidPc' = [ ccidPc EXCEPT ![t] = "idle" ]
    /\ ccidJob' = [ ccidJob EXCEPT ![t] = NoJob ]
    /\ UNCHANGED << vendor_handlers, vendorInterface, fidoAndLocks, webPc, webJob >>

\* a URB on the Bulk IN endpoint, under the mutex
ConcBulkIn ==
    /\ LockFree(ccidPc)
    /\ outQueue # << >>
    /\ BulkInURB

\* the WebUSB handler takes the mutex, calls drop_card() and gives the mutex
\* back at the end of the statement
ConcWebDrop ==
    /\ webPc = "idle"
    /\ LockFree(ccidPc)
    /\ \E setup \in ConcSetups :
         LET dropped == drop_card(card)
         IN  /\ ControlSetupNew(setup, << 1 >>).ok
             /\ card' = dropped.card
             /\ liveHandles' = liveHandles - dropped.closed
             /\ webJob' = setup
             /\ last' = Log("webusb_drop", << >>, "none", NoHeader, card,
                            dropped.calls, << >>, TRUE, << >>)
    /\ webPc' = "dropped"
    /\ UNCHANGED << vendor_handlers, vendorInterface, fidoAndLocks, outQueue, parameter,
                    cardATR, bos_descriptors, pending, ret, urbLength, ccidPc,
                    ccidJob >>

\* the WebUSB handler rewrites the index and issues control_in / control_out
ConcWebForward ==
    /\ webPc = "dropped"
    /\ webPc' = "in_flight"
    /\ last' = Log("webusb_forward", << >>, "none", NoHeader, card, << >>, << >>,
                   FALSE, << RewriteIndex(ControlSetupNew(webJob, << 1 >>)) >>)
    /\ UNCHANGED << vendor_handlers, vendorInterface, fidoAndLocks, card, outQueue,
                    parameter, cardATR, liveHandles, bos_descriptors, pending,
                    ret, urbLength, webJob, ccidPc, ccidJob >>

\* the transfer completes and handle_urb returns
ConcWebDone ==
    /\ webPc = "in_flight"
    /\ \E tbl \in BufferLengths, r \in DeviceAnswers :
         /\ ret' = IF ~r.ok THEN Err("io")
                   ELSE IF ControlSetupNew(webJob, << 1 >>).dir = "In"
                        THEN Ok(Truncate(r.data, tbl))
                        ELSE Ok(<< >>)
         /\ urbLength' = tbl
    /\ webPc' = "idle"
    /\ webJob' = Setup(0, 0, 0, 0)
    /\ last' = Log("webusb_urb", << >>, "none", NoHeader, card, << >>, << >>,
                   FALSE, << >>)
    /\ UNCHANGED << vendor_handlers, vendorInterface, fidoAndLocks, card, outQueue,
                    parameter, cardATR, liveHandles, bos_descriptors, pending,
                    ccidPc, ccidJob >>

NextConc ==
    \/ \E t \in Tasks : ConcCcidBegin(t) \/ ConcCcidTransmit(t) \/ ConcCcidEnd(t)
    \/ ConcBulkIn
    \/ ConcWebDrop
    \/ ConcWebForward
    \/ ConcWebDone

SpecConc == Init /\ [][NextConc]_vars

\* main() before CCIDInterfaceHandler::new, over a card whose ATR is atr
Unconstructed(atr) ==
    /\ cardATR = atr
    /\ vendorInterface = WebUSBInterfaceNumber
    /\ urbLength = 0
    /\ webPc = "idle"
    /\ webJob = Setup(0, 0, 0, 0)
    /\ ccidPc = [ t \in Tasks |-> "idle" ]
    /\ ccidJob = [ t \in Tasks |-> NoJob ]
    /\ parameter = None
    /\ card = "None"
    /\ liveHandles = 0
    /\ outQueue = << >>
    /\ pending = << >>
    /\ bos_descriptors = None
    /\ vendor_handlers = << "webusb" >>
    /\ ret = Ok(<< >>)
    /\ last = Log("start", << >>, "none", NoHeader, "None", << >>, << >>, FALSE,
                  << >>)
    /\ fidoDevice = None
    /\ mutex = [ h \in Handlers |-> 0 ]
    /\ urbPc = [ t \in 1..NumUrbTasks |-> << >> ]

InitAtr == \E atr \in AtrInputs : Unconstructed(atr) /\ hidDevices = << CanokeyHid >>

\* CCIDInterfaceHandler::new: connects, reads the ATR (at least 2 bytes) and
\* runs the closure over it
NewHandler ==
    /\ last.op = "start"
    /\ Len(cardATR) >= 2
    /\ parameter' = ParseATR(cardATR)
    /\ card' = "Some"
    /\ liveHandles' = 1
    /\ last' = Log("init", cardATR, "none", NoHeader, "None", << "connect" >>,
                   << >>, FALSE, << >>)
    /\ UNCHANGED << outQueue, cardATR, bos_descriptors, pending, ret, urbLength >>
    /\ UNCHANGED << tasks, vendor_handlers, vendorInterface, fidoAndLocks >>

\* a GetParameters frame on the Bulk OUT endpoint of the constructed handler
BulkOutAtrURB ==
    /\ last.op # "start"
    /\ Len(outQueue) < MaxQueue
    /\ \E req \in AtrFrames : CcidHandleUrb(1, ZeroSetup, req, NoJob.b)
    /\ urbLength' = BulkLength
    /\ UNCHANGED << tasks, vendor_handlers, vendorInterface, fidoAndLocks >>

\* a URB on the Bulk IN endpoint of the constructed handler
BulkInAtrURB ==
    /\ last.op # "start"
    /\ BulkInURB

\* construction over every ATR shape, then GetParameters
NextAtr == NewHandler \/ BulkOutAtrURB \/ BulkInAtrURB

SpecAtr == InitAtr /\ [][NextAtr]_vars

\* whether bit b (1, 2, 4 or 8) of the nibble y is set; the byte it announces
Announced(y, b, byte) == IF (y \div b) % 2 = 1 THEN << byte >> ELSE << >>

\* an ATR as a card lays it out (ISO 7816-3): TS, T0 with Y1 = y1, the TA1,
\* TB1, TC1, TD1 that Y1 announces, TD1 carrying Y2 = y2, the TA2, TB2, TC2,
\* TD2 that Y2 announces, TD2 carrying Y3 = y3, the TA3, TB3, TC3, TD3 that
\* Y3 announces, and the check byte.  Every interface byte has a value of
\* its own, so the block tells which offsets the closure read
IsoATR(ts, y1, tc1, y2, y3) ==
    << ts, y1 * 16 >>
        \o Announced(y1, 1, 17) \o Announced(y1, 2, 37)
        \o Announced(y1, 4, tc1) \o Announced(y1, 8, y2 * 16 + 1)
        \o (IF y1 >= 8
            THEN Announced(y2, 1, 49) \o Announced(y2, 2, 50)
                    \o Announced(y2, 4, 51) \o Announced(y2, 8, y3 * 16 + 1)
                    \o (IF y2 >= 8
                        THEN Announced(y3, 1, 18) \o Announced(y3, 2, 69)
                                \o Announced(y3, 4, 55) \o Announced(y3, 8, 1)
                        ELSE << >>)
            ELSE << >>)
        \o << 170 >>

\* the card ATRs explored under SpecIso
IsoAtrInputs ==
    { IsoATR(ts, y1, tc1, y2, y3) :
        ts \in { 59, 63 }, y1 \in { 5, 9, 12, 13, 15 }, tc1 \in { 254, 255 },
        y2 \in { 0 } \cup 8..15, y3 \in { 3, 5, 7, 11 } }

InitIso == \E atr \in IsoAtrInputs : Unconstructed(atr) /\ hidDevices = << CanokeyHid >>

\* construction over the ATRs cards send, then GetParameters
SpecIso == InitIso /\ [][NextAtr]_vars

(***************************************************************************)
(* The Mutex of each handler: the caller locks the handler a URB is for    *)
(* around its handle_urb, the device handler locks its vendor child, the   *)
(* WebUSB handler locks the CCID handler for the drop_card() statement.    *)
(***************************************************************************)
\* URB paths in which the CCID handler calls into the WebUSB handler
UrbPathsCcidCallsWebUSB ==
    { << << "lock", "webusb" >>, << "lock", "ccid" >>, << "unlock", "ccid" >>,
         << "unlock", "webusb" >> >>,
      << << "lock", "ccid" >>, << "lock", "webusb" >>, << "unlock", "webusb" >>,
         << "unlock", "ccid" >> >> }

\* the lock and unlock calls of a URB, in order: a device URB answered
\* without a child; a vendor or first BOS device URB, which locks the WebUSB
\* child; a WebUSB URB answered at once; a forwarded WebUSB URB, which locks
\* the CCID handler to drop the card; a CCID URB; a FIDO URB
UrbPaths ==
    { << << "lock", "device" >>, << "unlock", "device" >> >>,
      << << "lock", "device" >>, << "lock", "webusb" >>, << "unlock", "webusb" >>,
         << "unlock", "device" >> >>,
      << << "lock", "webusb" >>, << "unlock", "webusb" >> >>,
      << << "lock", "webusb" >>, << "lock", "ccid" >>, << "unlock", "ccid" >>,
         << "unlock", "webusb" >> >>,
      << << "lock", "ccid" >>, << "unlock", "ccid" >> >>,
      << << "lock", "fido" >>, << "unlock", "fido" >> >> }

\* task t starts to serve a URB
BeginUrb(t) ==
    /\ urbPc[t] = << >>
    /\ \E path \in UrbPaths : urbPc' = [ urbPc EXCEPT ![t] = path ]
    /\ UNCHANGED << card, outQueue, parameter, cardATR, liveHandles, pending,
                    bos_descriptors, urbLength, ret, last, hidDevices, fidoDevice,
                    mutex, tasks, vendor_handlers, vendorInterface >>

\* Mutex::lock returns to task t: the mutex was free
TakeLock(t) ==
    /\ urbPc[t] # << >>
    /\ Head(urbPc[t])[1] = "lock"
    /\ mutex[Head(urbPc[t])[2]] = 0
    /\ mutex' = [ mutex EXCEPT ![Head(urbPc[t])[2]] = t ]
    /\ urbPc' = [ urbPc EXCEPT ![t] = Tail(@) ]
    /\ UNCHANGED << card, outQueue, parameter, cardATR, liveHandles, pending,
                    bos_descriptors, urbLength, ret, last, hidDevices, fidoDevice,
                    tasks, vendor_handlers, vendorInterface >>

\* task t drops the guard of a mutex
GiveLock(t) ==
    /\ urbPc[t] # << >>
    /\ Head(urbPc[t])[1] = "unlock"
    /\ mutex' = [ mutex EXCEPT ![Head(urbPc[t])[2]] = 0 ]
    /\ urbPc' = [ urbPc EXCEPT ![t] = Tail(@) ]
    /\ UNCHANGED << card, outQueue, parameter, cardATR, liveHandles, pending,
                    bos_descriptors, urbLength, ret, last, hidDevices, fidoDevice,
                    tasks, vendor_handlers, vendorInterface >>

NextLocks == \E t \in 1..NumUrbTasks : BeginUrb(t) \/ TakeLock(t) \/ GiveLock(t)

SpecLocks == Init /\ [][NextLocks]_vars

(***************************************************************************)
(* FIDOInterfaceHandler::new over the raw-HID devices hidapi enumerates    *)
(***************************************************************************)
\* device_list().find(closure) with desc the descriptor of the physical
\* device: the index of the first device the closure accepts, 0 for None
RECURSIVE FindFido(_, _, _)
FindFido(devs, i, desc) ==
    IF i > Len(devs) THEN 0
    ELSE IF /\ devs[i].vendor_id = desc.vendor_id
            /\ desc.product_id = desc.product_id
            /\ devs[i].usage_page = FidoUsagePage
    THEN i
    ELSE FindFido(devs, i + 1, desc)

\* FIDOInterfaceHandler::new: NotFound when find yields None; otherwise the
\* interface lookup and the class descriptor search may end in NotFound, the
\* open in another error, and on success the handler holds the device found
FidoNew ==
    /\ last.op = "start"
    /\ LET desc == [ vendor_id |-> CanokeyVendorId, product_id |-> CanokeyProductId ]
           i == FindFido(hidDevices, 1, desc)
       IN  IF i = 0
           THEN ret' = Err("NotFound") /\ fidoDevice' = None
           ELSE \E rest \in { "ok", "NotFound", "Other" } :
                   IF rest = "ok"
                   THEN ret' = Ok(<< >>) /\ fidoDevice' = Some(hidDevices[i])
                   ELSE ret' = Err(rest) /\ fidoDevice' = None
    /\ last' = Log("fido_new", << >>, "none", NoHeader, "None", << >>, << >>,
                   FALSE, << >>)
    /\ UNCHANGED << card, outQueue, parameter, cardATR, liveHandles, pending,
                    bos_descriptors, urbLength, hidDevices, mutex, urbPc >>
    /\ UNCHANGED << tasks, vendor_handlers, vendorInterface >>

\* every enumeration of up to MaxHidDevices devices that have or have not
\* the vendor id, the product id and the usage page looked for
InitFido ==
    /\ \E atr \in ConstructionATRs : Unconstructed(atr)
    /\ \E n \in 0..MaxHidDevices :
          hidDevices \in [ 1..n -> [ vendor_id : { CanokeyVendorId, 1155 },
                                     product_id : { CanokeyProductId, 17109 },
                                     usage_page : { FidoUsagePage, 1 } ] ]

SpecFido == InitFido /\ [][FidoNew]_vars

(***************************************************************************)
(* Properties                                                              *)
(***************************************************************************)
\* bStatus of an encoded response: bits 7..6 the command status, bits 1..0
\* the ICC status
CommandStatusBits(frame) == (frame[8] \div 64) % 4
ICCStatusBits(frame) == frame[8] % 4

\* the last URB was a Bulk OUT frame of at least 10 bytes
AcceptedBulkOut == last.op = "bulk_out" /\ Len(last.req) >= MinFrameLen

\* the last URB was a Bulk OUT frame that decoded to a command
DecodedBulkOut == last.op = "bulk_out" /\ last.decoded = "Ok"

\* C1: outQueue holds, in acceptance order, exactly one encoded response for
\* each Bulk OUT frame of at least 10 bytes not yet drained (it echoes the
\* slot and sequence number of its command); a non-empty Bulk IN result is
\* the response to the oldest undrained command; an accepted Bulk OUT
\* returns empty bytes.  Checked under SpecFifo.
C1_FifoPairing ==
    /\ Len(outQueue) = Len(pending)
    /\ \A i \in 1..Len(outQueue) :
          /\ Len(outQueue[i]) >= 10
          /\ outQueue[i][6] = pending[i].bSlot
          /\ outQueue[i][7] = pending[i].bSeq
    /\ AcceptedBulkOut =>
          /\ ret = Ok(<< >>)
          /\ Len(last.pushed) = 1
          /\ outQueue # << >>
          /\ outQueue[Len(outQueue)] = last.pushed[1]
    /\ (last.op = "bulk_in" /\ ret.ok /\ ret.data # << >>) =>
          /\ ret.data[6] = last.header.bSlot
          /\ ret.data[7] = last.header.bSeq

\* two responses wait in the queue, answering commands with different
\* sequence numbers, one of them a CommandError
C1_Witness ==
    /\ Len(outQueue) = 2
    /\ pending[1].bSeq # pending[2].bSeq
    /\ last.op = "bulk_out"
    /\ last.decoded = "CommandError"

\* C2: a vendor control transfer is issued to the physical device only after
\* drop_card was called in the handling of the same URB, on the interface
\* path and on the device path.  Checked under SpecCtl.
C2_DropBeforeVendorTransfer ==
    \A i \in 1..Len(last.transfers) :
        last.transfers[i].control_type = "Vendor" => last.dropCard

\* C3: at most one card handle is live, it is live exactly when card is
\* Some, and PowerOn connects only when it starts with card None
C3_OneHandle ==
    /\ liveHandles <= 1
    /\ (card = "Some") <=> (liveHandles = 1)
    /\ \A i \in 1..Len(last.calls) :
          last.calls[i] = "connect" => last.cardBefore = "None"

\* a PowerOn re-acquired the card after it had been dropped
C3_Witness ==
    /\ DecodedBulkOut
    /\ last.header.bMessageType = PC_to_RDR_IccPowerOn
    /\ last.cardBefore = "None"
    /\ last.calls = << "connect", "status" >>
    /\ card = "Some"
    /\ liveHandles = 1

\* C4: with card None, a decoded command other than PowerOn, PowerOff and
\* GetSlotStatus is answered with ICC status Absent (2) and command status
\* Failure (1), and makes no PC/SC call
C4_AbsentFailure ==
    ( /\ DecodedBulkOut
      /\ last.cardBefore = "None"
      /\ last.header.bMessageType \notin
            { PC_to_RDR_IccPowerOn, PC_to_RDR_IccPowerOff, PC_to_RDR_GetSlotStatus } )
    => /\ Len(last.pushed) = 1
       /\ ICCStatusBits(last.pushed[1]) = 2
       /\ CommandStatusBits(last.pushed[1]) = 1
       /\ last.calls = << >>

\* C5: a decoded command addressing a slot other than 0 is answered with
\* command status Failure and error byte 0x05
C5_SlotError ==
    (DecodedBulkOut /\ last.header.bSlot # 0)
    => /\ Len(last.pushed) = 1
       /\ CommandStatusBits(last.pushed[1]) = 1
       /\ last.pushed[1][9] = 5

\* C6: a Bulk OUT command whose slot field is not 0 leaves card as it was
\* and makes no PC/SC call
C6_SlotFrame ==
    (AcceptedBulkOut /\ last.req[6] # 0)
    => /\ card = last.cardBefore
       /\ last.calls = << >>

\* a PowerOff for slot 1 arrived while the card was held
C6_Witness ==
    /\ DecodedBulkOut
    /\ last.header.bSlot = 1
    /\ last.header.bMessageType = PC_to_RDR_IccPowerOff
    /\ last.cardBefore = "Some"
    /\ card = "Some"

\* C7: after a slot-0 PowerOff card is None; after a slot-0 PowerOn that
\* starts with card None and is answered with command status Success, card
\* is Some
C7_PowerTransitions ==
    /\ ( /\ DecodedBulkOut
         /\ last.header.bSlot = 0
         /\ last.header.bMessageType = PC_to_RDR_IccPowerOff )
       => card = "None"
    /\ ( /\ DecodedBulkOut
         /\ last.header.bSlot = 0
         /\ last.header.bMessageType = PC_to_RDR_IccPowerOn
         /\ last.cardBefore = "None"
         /\ Len(last.pushed) = 1
         /\ CommandStatusBits(last.pushed[1]) = 0 )
       => card = "Some"

\* a slot-0 PowerOff released a held card
C7_Witness ==
    /\ DecodedBulkOut
    /\ last.header.bSlot = 0
    /\ last.header.bMessageType = PC_to_RDR_IccPowerOff
    /\ last.cardBefore = "Some"
    /\ last.calls = << "disconnect" >>
    /\ card = "None"

\* C8: every Bulk OUT URB completes successfully and queues one response,
\* a frame shorter than 10 bytes included
C8_NoTransportError ==
    last.op = "bulk_out" => (ret.ok /\ Len(last.pushed) = 1)

\* the data bytes an encoded response carries after its fixed fields
DataBytes(frame) ==
    CASE frame[1] \in { RDR_to_PC_DataBlock, RDR_to_PC_Parameters } -> Len(frame) - 10
      [] frame[1] = RDR_to_PC_Escape -> Len(frame) - 9
      [] OTHER -> 0

\* C9: in every queued response dwLength is the number of data bytes the
\* response carries, 0 when nothing was appended, whatever the dwLength of
\* the command
C9_LengthField ==
    /\ \A i \in 1..Len(outQueue) : LE32(outQueue[i], 2) = DataBytes(outQueue[i])
    /\ (last.op = "bulk_out" /\ Len(last.pushed) = 1) =>
          /\ LE32(last.pushed[1], 2) = DataBytes(last.pushed[1])
          /\ ("status" \notin { last.calls[i] : i \in 1..Len(last.calls) }
              /\ "transmit" \notin { last.calls[i] : i \in 1..Len(last.calls) }
              /\ last.header.bMessageType # PC_to_RDR_GetParameters)
             => LE32(last.pushed[1], 2) = 0

\* an XfrBlock with dwLength 2 was answered with a 4-byte APDU
C9_Witness ==
    /\ DecodedBulkOut
    /\ last.header.bMessageType = PC_to_RDR_XfrBlock
    /\ last.header.dwLength = 2
    /\ Len(last.pushed) = 1
    /\ LE32(last.pushed[1], 2) = 4
    /\ Len(last.pushed[1]) = 14

\* C10: a 10-byte frame of unknown type with slot s and sequence q is
\* answered with 81 00000000 s q 40 00 00
C10_UnknownType ==
    ( /\ last.op = "bulk_out"
      /\ Len(last.req) = 10
      /\ last.req[1] \notin CommandTypes )
    => last.pushed = << << RDR_to_PC_SlotStatus, 0, 0, 0, 0, last.req[6], last.req[7],
                          64, 0, 0 >> >>

\* the last URB was a decoded slot-0 command of type t
DecodedSlot0(t) ==
    /\ DecodedBulkOut
    /\ last.header.bSlot = 0
    /\ last.header.bMessageType = t
    /\ Len(last.pushed) = 1

\* C11 as stated: a slot-0 GetSlotStatus with no card handle is answered
\* 81 00000000 00 seq 41 00 00
C11_StatusByte41 ==
    (DecodedSlot0(PC_to_RDR_GetSlotStatus) /\ last.cardBefore = "None")
    => last.pushed[1] = << RDR_to_PC_SlotStatus, 0, 0, 0, 0, 0, last.header.bSeq,
                           65, 0, 0 >>

\* C11 amended: a slot-0 GetSlotStatus with no card handle is answered
\* 81 00000000 00 seq 01 00 00 (ICCInactiveSuccess, UnsupportedCommand)
C11_StatusByte01 ==
    (DecodedSlot0(PC_to_RDR_GetSlotStatus) /\ last.cardBefore = "None")
    => last.pushed[1] = << RDR_to_PC_SlotStatus, 0, 0, 0, 0, 0, last.header.bSeq,
                           1, 0, 0 >>

\* a slot-0 GetSlotStatus was answered while no handle was held
C11_Witness ==
    /\ DecodedSlot0(PC_to_RDR_GetSlotStatus)
    /\ last.cardBefore = "None"
    /\ card = "None"
    /\ liveHandles = 0

\* C12: a slot-0 PowerOn that starts with no handle and whose connect is
\* refused is answered 80 00000000 00 seq 41 FB 00 and leaves card None
C12_ConnectRefused ==
    ( /\ DecodedSlot0(PC_to_RDR_IccPowerOn)
      /\ last.cardBefore = "None"
      /\ last.calls = << "connect" >> )
    => /\ last.pushed[1] = << RDR_to_PC_DataBlock, 0, 0, 0, 0, 0, last.header.bSeq,
                              65, HW_ERROR, 0 >>
       /\ card = "None"
       /\ liveHandles = 0

\* a PowerOn found no handle and its connect was refused
C12_Witness ==
    /\ DecodedSlot0(PC_to_RDR_IccPowerOn)
    /\ last.cardBefore = "None"
    /\ last.calls = << "connect" >>
    /\ card = "None"

\* the last URB queued a response
QueuedResponse == last.op = "bulk_out" /\ Len(last.pushed) = 1

\* C13 as stated: an encoded response starts with a 12-byte header, the
\* status and error bytes after 10 common bytes, the trailer at offset 12
C13_TwelveByteHeader ==
    QueuedResponse
    => /\ Len(last.pushed[1]) >= 12
       /\ last.pushed[1][11] = StatusByte(last.resp.bStatus)
       /\ last.pushed[1][12] = ErrorByte(last.resp.bError)

\* C13 amended: an encoded response starts with a 9-byte header, the 7
\* common header bytes followed by the status byte and the error byte, and
\* the trailer starts at byte offset 9 (one trailer byte, then the data of a
\* DataBlock or Parameters response)
C13_NineByteHeader ==
    QueuedResponse
    => LET f == last.pushed[1]
           r == last.resp
       IN  /\ Len(f) >= 10
           /\ f[1] = r.bMessageType
           /\ LE32(f, 2) = r.dwLength
           /\ f[6] = r.bSlot
           /\ f[7] = r.bSeq
           /\ f[8] = StatusByte(r.bStatus)
           /\ f[9] = ErrorByte(r.bError)
           /\ r.variant = "DataBlock" => f[10] = r.bChainParameter
           /\ r.variant = "SlotStatus" => f[10] = r.bClockStatus /\ Len(f) = 10
           /\ r.variant = "Parameters" => f[10] = r.bProtocolNum
           /\ r.variant \in { "DataBlock", "Parameters" }
                 => SubSeq(f, 11, Len(f)) = r.abData

\* a Parameters response carrying the 7-byte block was queued: 9 header
\* bytes, bProtocolNum at offset 9, then the block
C13_Witness ==
    /\ QueuedResponse
    /\ last.resp.variant = "Parameters"
    /\ Len(last.resp.abData) = 7
    /\ Len(last.pushed[1]) = 17

\* the last URB was a BOS GetDescriptor that the device handler answered
BosAnswered ==
    last.op = "device_urb" /\ last.decoded \in { "built", "cached" } /\ ret.ok

\* the fragments the vendor child collects from the physical BOS descriptor
\* the last URB saw
CollectedNow ==
    GetDeviceCapabilityDescriptors([ ok |-> TRUE, data |-> last.req ]).frags

\* C14: the aggregated BOS descriptor has total_length equal to its byte
\* length and at most 0xFFFF, count equal to the number of fragments it
\* contains and at most 0xFF; fragments beyond a limit give 05 0F 05 00 00.
\* Checked under SpecBos.
C14_BosConsistent ==
    BosAnswered
    => LET d == ret.data
           w == WalkCapabilities(SubSeq(d, 6, Len(d)), << >>)
       IN  /\ Len(d) >= 5
           /\ d[1] = 5 /\ d[2] = BOS_TYPE
           /\ d[3] + 256 * d[4] = Len(d)
           /\ Len(d) <= 65535
           /\ w.ok /\ w.ends
           /\ d[5] = Len(w.frags)
           /\ d[5] <= 255
           /\ (last.decoded = "built" /\ Len(CollectedNow) > 255) => d = DefaultBOS
           /\ (last.decoded = "built" /\ Len(CollectedNow) <= 255
               /\ 5 + Len(Concat(CollectedNow)) <= 65535) => w.frags = CollectedNow

\* the first BOS request met 256 capabilities and fell back to the default
C14_Witness ==
    /\ BosAnswered
    /\ last.decoded = "built"
    /\ Len(CollectedNow) = 256
    /\ ret.data = DefaultBOS

\* C15: once built, the aggregated BOS descriptor never changes, and every
\* later BOS request returns it whatever the vendor child would contribute
\* now.  Checked under SpecBos.
C15_FirstWins ==
    [][ bos_descriptors.is_some
        => /\ bos_descriptors' = bos_descriptors
           /\ (last'.op = "device_urb" /\ last'.decoded # "none")
              => (last'.decoded = "cached" /\ ret' = Ok(bos_descriptors.v)) ]_vars

\* a BOS request was served the default descriptor from the cell while the
\* physical device now offers capabilities
C15_Witness ==
    /\ BosAnswered
    /\ last.decoded = "cached"
    /\ ret.data = DefaultBOS
    /\ bos_descriptors = Some(DefaultBOS)
    /\ Len(CollectedNow) = 2

\* the preconditions spec section 4.2 lists for an ATR, TD1 and TD2 read at
\* the offsets the closure computes
TD1Offset(atr) == IF HighNibble(atr[2]) = 13 THEN 4 ELSE 5
TD2Offset(atr) ==
    LET y2 == HighNibble(atr[TD1Offset(atr) + 1])
    IN  TD1Offset(atr) + (CASE y2 \in { 8, 12 } -> 1
                            [] y2 \in { 9, 10 } -> 2
                            [] y2 \in { 11, 13, 14 } -> 3
                            [] OTHER -> 4)
DocumentedPreconditions(atr) ==
    /\ atr[1] \in { 59, 63 }
    /\ HighNibble(atr[2]) % 2 = 1
    /\ HighNibble(atr[2]) \in { 13, 15 }
    /\ TD1Offset(atr) < Len(atr)
    /\ HighNibble(atr[TD1Offset(atr) + 1]) \in 8..15
    /\ TD2Offset(atr) < Len(atr)
    /\ HighNibble(atr[TD2Offset(atr) + 1]) \in { 3, 7, 11, 15 }

\* C16: the handler constructed over an ATR holds a parameter block only if
\* the ATR meets every documented precondition (TS 3B or 3F, TA1 present,
\* Y1 D or F, Y2 in 8..F, Y3 in 3, 7, B, F).  Violated: Y3 in 0, 4, 8, C is
\* logged and parsing goes on
C16_OnlyDocumentedATRs ==
    (last.op # "start" /\ parameter.is_some) => DocumentedPreconditions(cardATR)

\* C17: what handle_urb of an interface handler returns is never longer than
\* the transfer_buffer_length of the URB.  Violated: the Bulk IN branch of
\* the CCID handler returns the whole queued frame, and the GetStatus branch
\* of the WebUSB handler returns two bytes
C17_WithinTransferBuffer ==
    (last.op \in { "bulk_out", "bulk_in", "ccid_control", "webusb_urb" } /\ ret.ok)
        => Len(ret.data) <= urbLength

\* C18: with WebUSB and CCID URBs served at the same time, no state has a
\* WebUSB control transfer in flight while the CCID handler holds a card
\* handle.  Violated: the mutex is given back before the transfer is issued
\* and a PowerOn connects again
C18_NoTransferWhileHeld == ~(webPc = "in_flight" /\ card = "Some")

\* C19: the mutex of the CCID handler serializes its state: drop_card() on
\* behalf of WebUSB never runs while a task is inside the Bulk OUT branch, and
\* at most one task is inside tx.transmit with the static receive buffer
C19_Serialized ==
    /\ last.op = "webusb_drop" => \A t \in Tasks : ccidPc[t] = "idle"
    /\ Cardinality({ t \in Tasks : ccidPc[t] = "transmit" }) <= 1
    /\ Cardinality({ t \in Tasks : ccidPc[t] # "idle" }) <= 1

\* a task is inside tx.transmit while the WebUSB handler, having dropped the
\* card for its own URB, has its transfer in flight
C19_Witness == webPc = "in_flight" /\ \E t \in Tasks : ccidPc[t] = "transmit"

\* C20: the ICC status of every queued response tells whether the handler
\* holds a card handle once the command is handled: Active if and only if a
\* handle is held, Absent or Inactive if and only if none is.  Violated
C20_IccReflectsHandle ==
    QueuedResponse => (ICCStatusBits(last.pushed[1]) = 0 <=> card = "Some")

\* the frame a DataBlock response with this sequence number, status, error
\* and payload encodes to
DataBlockFrame(seq, status, error, data) ==
    << RDR_to_PC_DataBlock >> \o LE32Bytes(Len(data)) \o << 0, seq, status, error, 0 >>
        \o data

\* C21: a task that handles a slot-0 XfrBlock while the handle is held
\* queues an empty success DataBlock without any PC/SC call when the length
\* is 0; a DataBlock with status 0x40, error 0xE0 and no payload when
\* begin-transaction or transmit fails; a success DataBlock whose payload is
\* the APDU transmit returned otherwise; and the handle stays held
C21_XfrBlock ==
    [][ \A t \in Tasks :
          ( /\ ccidPc[t] # "idle"
            /\ ccidPc'[t] = "idle"
            /\ ccidJob[t].req[1] = PC_to_RDR_XfrBlock
            /\ ccidJob[t].req[6] = 0
            /\ card = "Some" )
          => LET req == ccidJob[t].req
                 b == ccidJob[t].b
                 seq == req[7]
             IN  /\ card' = "Some"
                 /\ ret' = Ok(<< >>)
                 /\ IF LE32(req, 2) = 0
                    THEN /\ last'.calls = << >>
                         /\ last'.pushed = << DataBlockFrame(seq, 0, 0, << >>) >>
                    ELSE IF ~b.tx \/ ~b.transmit
                    THEN last'.pushed = << DataBlockFrame(seq, 64, 224, << >>) >>
                    ELSE last'.pushed = << DataBlockFrame(seq, 0, 0, b.apdu) >>
    ]_vars

\* a slot-0 XfrBlock with data was handled with the handle held and its
\* transmit failed
C21_Witness ==
    /\ last.op = "bulk_out"
    /\ last.req[1] = PC_to_RDR_XfrBlock
    /\ last.cardBefore = "Some"
    /\ last.calls = << "begin_transaction", "transmit", "end_transaction" >>
    /\ last.pushed = << DataBlockFrame(1, 64, 224, << >>) >>
    /\ card = "Some"

\* C22: a slot-0 GetSlotStatus is answered with a SlotStatus response and
\* leaves the handle as it was; the response reports status 0x01 and error
\* 0x00 when no handle is held and status 0x00 when one is
C22_GetSlotStatus ==
    ( /\ DecodedBulkOut
      /\ last.header.bMessageType = PC_to_RDR_GetSlotStatus
      /\ last.header.bSlot = 0 )
    => /\ ret = Ok(<< >>)
       /\ Len(last.pushed) = 1
       /\ last.resp.variant = "SlotStatus"
       /\ card = last.cardBefore
       /\ last.calls = << >>
       /\ last.pushed[1][1] = 129
       /\ last.pushed[1][8] = (IF last.cardBefore = "None" THEN 1 ELSE 0)
       /\ last.pushed[1][9] = 0

\* a slot-0 GetSlotStatus was answered while a handle was held
C22_Witness ==
    /\ DecodedSlot0(PC_to_RDR_GetSlotStatus)
    /\ last.cardBefore = "Some"
    /\ card = "Some"
    /\ last.pushed[1][8] = 0

\* C23: no step changes the parameter block, and a slot-0 GetParameters
\* handled with the handle held is answered with a Parameters response
\* (0x82, dwLength 7, protocol byte 1) carrying the block when there is one,
\* and with status 0x40 and error 0x00 when there is none
C23_GetParameters ==
    [][ /\ parameter' = parameter
        /\ ( /\ last'.op = "bulk_out"
             /\ last'.decoded = "Ok"
             /\ last'.header.bMessageType = PC_to_RDR_GetParameters
             /\ last'.header.bSlot = 0
             /\ last'.cardBefore = "Some" )
           => /\ card' = "Some"
              /\ Len(last'.pushed) = 1
              /\ IF parameter.is_some
                 THEN /\ Len(parameter.v) = 7
                      /\ last'.pushed[1] =
                            << 130, 7, 0, 0, 0, 0, last'.header.bSeq, 0, 0, 1 >>
                                \o parameter.v
                 ELSE /\ last'.pushed[1][8] = 64
                      /\ last'.pushed[1][9] = 0
      ]_vars

\* a slot-0 GetParameters was answered with the 7-byte block while the
\* handle was held
C23_Witness ==
    /\ DecodedSlot0(PC_to_RDR_GetParameters)
    /\ last.cardBefore = "Some"
    /\ parameter.is_some
    /\ liveHandles = 1
    /\ SubSeq(last.pushed[1], 11, 17) = parameter.v

\* C24: a slot-0 bulk Abort handled with the handle held puts a success
\* SlotStatus behind the responses already queued and removes none of them;
\* an Abort on the control endpoint returns an empty result and leaves the
\* queue and the handle as they were
C24_Abort ==
    [][ /\ ( /\ last'.op = "bulk_out"
             /\ last'.decoded = "Ok"
             /\ last'.header.bMessageType = PC_to_RDR_Abort
             /\ last'.header.bSlot = 0
             /\ card = "Some" )
           => /\ outQueue' = Append(outQueue, << 129, 0, 0, 0, 0, 0,
                                                last'.header.bSeq, 0, 0, 0 >>)
              /\ card' = card
              /\ ret' = Ok(<< >>)
        /\ (last'.op = "ccid_control" /\ last'.decoded = "Abort")
           => /\ ret' = Ok(<< >>)
              /\ outQueue' = outQueue
              /\ card' = card
      ]_vars

\* a bulk Abort was answered behind an older response still queued
C24_Witness ==
    /\ DecodedSlot0(PC_to_RDR_Abort)
    /\ last.cardBefore = "Some"
    /\ Len(outQueue) = 2
    /\ outQueue[2] = last.pushed[1]
    /\ outQueue[1][1] = 128

\* the response type the selection table of spec section 4.1 gives for a
\* command type it lists (0 for a type it does not list)
TableResponseType(t) ==
    CASE t \in { PC_to_RDR_IccPowerOn, PC_to_RDR_XfrBlock, PC_to_RDR_Secure } -> 128
      [] t \in { PC_to_RDR_IccPowerOff, PC_to_RDR_GetSlotStatus, PC_to_RDR_IccClock,
                 PC_to_RDR_T0APDU, PC_to_RDR_Mechanical, PC_to_RDR_Abort } -> 129
      [] t \in { PC_to_RDR_GetParameters, PC_to_RDR_ResetParameters,
                 PC_to_RDR_SetParameters } -> 130
      [] t = PC_to_RDR_SetDataRateAndClockFrequency -> 132
      [] OTHER -> 0

\* the last command was decoded and stopped at one of the two gates, whose
\* caller supplies ICCAbsentFailure and InvalidParameter(5)
StoppedAtGate ==
    /\ DecodedBulkOut
    /\ \/ last.header.bSlot # 0
       \/ /\ last.cardBefore = "None"
          /\ last.header.bMessageType \notin
                { PC_to_RDR_IccPowerOn, PC_to_RDR_IccPowerOff, PC_to_RDR_GetSlotStatus }

\* C25: the response queued for a command header has the UnsupportedCommand
\* shape when its status is Failure with error UnsupportedCommand, and
\* otherwise the type the selection table gives for the command type; and
\* the status and error its caller supplied are the ones it carries.
\* Violated: an Escape command stopped at a gate carries ICCActiveFailure and
\* UnsupportedCommand instead of the ICCAbsentFailure and InvalidParameter(5)
\* supplied
C25_SelectionTable ==
    QueuedResponse
    => LET t == last.header.bMessageType
           f == last.pushed[1]
           unsupported == CommandStatusOf(last.resp.bStatus) = "Failure"
                              /\ last.resp.bError = UnsupportedCommand
       IN  /\ unsupported => last.resp.variant = "UnsupportedCommand"
           /\ (~unsupported /\ TableResponseType(t) # 0) => f[1] = TableResponseType(t)
           /\ StoppedAtGate => (f[8] = 66 /\ f[9] = 5)

\* the command types whose dwLength must be 0, and those that carry dwLength
\* bytes of data after their 10th byte
FixedShape ==
    { PC_to_RDR_IccPowerOn, PC_to_RDR_IccPowerOff, PC_to_RDR_GetSlotStatus,
      PC_to_RDR_GetParameters, PC_to_RDR_ResetParameters, PC_to_RDR_IccClock,
      PC_to_RDR_T0APDU, PC_to_RDR_Mechanical, PC_to_RDR_Abort }
PayloadBearing ==
    { PC_to_RDR_XfrBlock, PC_to_RDR_SetParameters, PC_to_RDR_Escape,
      PC_to_RDR_Secure }

\* the last URB was a Bulk OUT frame of at least 10 bytes of one of the 14
\* command types
CommandFrame ==
    /\ AcceptedBulkOut
    /\ last.req[1] \in FixedShape \cup PayloadBearing
                          \cup { PC_to_RDR_SetDataRateAndClockFrequency }

\* the three ways the length field of the last frame disagrees with it
WrongFixedLength ==
    \/ last.req[1] \in FixedShape /\ LE32(last.req, 2) # 0
    \/ last.req[1] = PC_to_RDR_SetDataRateAndClockFrequency /\ LE32(last.req, 2) # 8
ShortPayload ==
    last.req[1] \in PayloadBearing /\ Len(last.req) - 10 < LE32(last.req, 2)
TrailingBytes == Len(last.req) - 10 > LE32(last.req, 2)

\* the length field of the last frame agrees with its bytes
LengthAgrees ==
    /\ ~WrongFixedLength
    /\ Len(last.req) - 10 = LE32(last.req, 2)

\* the enumerated field of the last frame, if its type has one, is in range
EnumInRange ==
    LET t == last.req[1]
        e == last.req[8]
    IN  /\ t = PC_to_RDR_IccPowerOn => e \in 0..3
        /\ t = PC_to_RDR_SetParameters => e \in 0..1
        /\ t = PC_to_RDR_IccClock => e \in 0..1
        /\ t = PC_to_RDR_T0APDU => e \in 0..3
        /\ t = PC_to_RDR_Mechanical => e \in 1..5

\* the last frame was rejected by Command::decode with InvalidParameter(1)
RejectedForLength ==
    /\ last.decoded = "CommandError"
    /\ last.error = InvalidParameter(1)

\* C26 as stated: a command frame is rejected with InvalidParameter(1)
\* whenever a fixed-shape command has a length other than 0 (8 for
\* SetDataRateAndClockFrequency), a payload-bearing command has fewer than
\* length payload bytes, or bytes follow the declared payload; and a frame
\* whose length agrees with its bytes is never rejected with it.
\* Violated: an IccPowerOn of length 0 with voltage 9 and one trailing byte is
\* rejected with InvalidParameter(7)
C26_LengthMismatch ==
    CommandFrame
    => /\ (WrongFixedLength \/ ShortPayload \/ TrailingBytes) => RejectedForLength
       /\ LengthAgrees => ~RejectedForLength

\* C26, amended: a wrong length of a fixed-shape command is always rejected
\* with InvalidParameter(1); a short payload and trailing bytes are rejected
\* with InvalidParameter(1) when the enumerated field of the frame, if it has
\* one, is in range; and a frame whose length agrees with its bytes is never
\* rejected with InvalidParameter(1)
C26_LengthMismatchUnlessEnum ==
    CommandFrame
    => /\ WrongFixedLength => RejectedForLength
       /\ ((ShortPayload \/ TrailingBytes) /\ EnumInRange) => RejectedForLength
       /\ LengthAgrees => ~RejectedForLength

\* an IccPowerOn of length 0 with a valid voltage and one trailing byte was
\* rejected with InvalidParameter(1)
C26_Witness ==
    /\ CommandFrame
    /\ last.req[1] = PC_to_RDR_IccPowerOn
    /\ LE32(last.req, 2) = 0
    /\ Len(last.req) = 11
    /\ EnumInRange
    /\ RejectedForLength

\* C27: a command frame whose enumerated field (voltage of IccPowerOn,
\* protocol of SetParameters, clock command of IccClock, class change of
\* T0APDU, function of Mechanical) is out of range, and whose fixed length is
\* right, is rejected by decode with InvalidParameter(7).
\* Violated: a SetParameters with protocol 9 is rejected with
\* InvalidParameter(9)
C27_EnumInvalidParameter7 ==
    (CommandFrame /\ ~EnumInRange /\ ~WrongFixedLength)
    => /\ last.decoded = "CommandError"
       /\ last.error = InvalidParameter(7)

\* the last URB was a device URB of the Vendor control type
VendorDeviceURB == last.op = "device_urb" /\ last.vendor

\* C28: a vendor-type device request is offered to the vendor children in
\* insertion order; the loop stops at the first child that succeeds, whose
\* result is the request's, no later child being invoked; and when every
\* child fails (or there is none) the request ends with the invalid-data
\* error, and the BOS cell is left as it was.  Checked under SpecVendor.
C28_VendorChildrenInOrder ==
    [][ (last'.op = "device_urb" /\ last'.vendor)
        => LET inv == last'.invoked
               n == Len(vendor_handlers)
               k == Len(inv)
           IN  /\ k <= n
               /\ \A j \in 1..k : inv[j].child = j
               /\ \A j \in 1..(k - 1) : ~inv[j].ret.ok
               /\ k < n => (k >= 1 /\ inv[k].ret.ok)
               /\ (k >= 1 /\ inv[k].ret.ok) => ret' = inv[k].ret
               /\ (k = n /\ (n = 0 \/ ~inv[n].ret.ok))
                  => /\ ret' = Err("InvalidData")
                     /\ bos_descriptors' = bos_descriptors
      ]_vars

\* the first of two children answered a vendor request and the second was
\* not invoked
C28_Witness ==
    /\ VendorDeviceURB
    /\ Len(vendor_handlers) = 2
    /\ Len(last.invoked) = 1
    /\ ret.ok
    /\ ret = last.invoked[1].ret

\* the last URB was a WebUSB URB that was forwarded to the physical interface
ForwardedWebUSB == last.op = "webusb_urb" /\ Len(last.transfers) = 1

\* C29: the transfer a WebUSB URB is forwarded as has the control type,
\* recipient, request, value and data of the URB, its index when the
\* recipient is not Interface, and for an Interface recipient the high byte
\* of its index with the number of the claimed physical interface as the low
\* byte.
\* Violated: over a device whose vendor-specific interface is number 0 or 2
\* the low byte forwarded is 1, the number main() passed to new()
C29_ForwardedIndex ==
    ForwardedWebUSB
    => LET f == last.transfers[1]
           s == last.setup
           out == (s.request_type \div 128) % 2 = 0
       IN  /\ f.control_type
                 = << "Standard", "Class", "Vendor" >>[((s.request_type \div 32) % 4) + 1]
           /\ f.recipient
                 = << "Device", "Interface", "Endpoint", "Other" >>[(s.request_type % 32) + 1]
           /\ f.request = s.request
           /\ f.value = s.value
           /\ f.data = IF out THEN last.req ELSE << >>
           /\ f.index = IF f.recipient = "Interface"
                         THEN (s.index \div 256) * 256 + vendorInterface
                         ELSE s.index

\* the last URB was a BOS GetDescriptor that ran the closure, which called
\* get_device_capability_descriptors of the vendor child
ClosureRan == last.op = "device_urb" /\ last.decoded \in { "built", "hang" }

\* the physical BOS descriptor bos (empty when the fetch failed) is malformed
\* in one of the ways C30 lists
MalformedBOS(bos) ==
    IF Len(bos) < 5 THEN TRUE
    ELSE \/ bos[1] # 5
         \/ bos[2] # BOS_TYPE
         \/ bos[3] + 256 * bos[4] # Len(bos)
         \/ bos[5] = 0
         \/ LoopPasses(SubSeq(bos, 6, Len(bos)), 1, Len(bos) - 5) = -1

\* C30: get_device_capability_descriptors returns, with no fragment when the
\* physical BOS descriptor is malformed (fetch failure, fewer than 5 bytes,
\* first byte not 5, type not BOS, total_length other than the length, count
\* 0, an item longer than the bytes that remain), and otherwise with
\* fragments that one after another are the bytes after the 5-byte header,
\* each as long as its first byte says.
\* Violated: for 05 0F 06 00 01 00, whose one item has length 0, the loop
\* never ends and nothing is returned
C30_CapabilityContribution ==
    ClosureRan
    => /\ last.decoded = "built"
       /\ MalformedBOS(last.req) => last.collected = << >>
       /\ ~MalformedBOS(last.req)
          => /\ Concat(last.collected) = SubSeq(last.req, 6, Len(last.req))
             /\ \A i \in 1..Len(last.collected) :
                   /\ last.collected[i] # << >>
                   /\ Len(last.collected[i]) = last.collected[i][1]


\* a handler was constructed and its closure produced a parameter block
ParserSucceeded == last.op # "start" /\ parameter.is_some

BlockReadWithTC1At(k) ==
    LET tc1 == 1 + k
        td1 == tc1 + 1
    IN  /\ td1 < Len(cardATR)
        /\ parameter.v[3] = cardATR[tc1 + 1]
        /\ LET y2 == HighNibble(cardATR[td1 + 1])
               td2 == td1 + (CASE y2 \in { 8, 12 } -> 1
                               [] y2 \in { 9, 10 } -> 2
                               [] y2 \in { 11, 13, 14 } -> 3
                               [] OTHER -> 4)
           IN  /\ y2 \in 8..15
               /\ td2 + 2 < Len(cardATR)
               /\ parameter.v[6] = cardATR[td2 + 2]
               /\ parameter.v[4] = cardATR[td2 + 3]

\* C32 as stated: TC1 is read at T0_offset+3 when Y1 is D and at T0_offset+4
\* when Y1 is F, TD1 right after it, and every other Y1 leaves no block.
\* Violated: for 3B D0 11 FE 81 31 12 45 AA the block's TC1 is FE, the byte
\* at offset 3 = T0_offset+2
C32_TC1Offset ==
    /\ ParserSucceeded
       => /\ HighNibble(cardATR[2]) \in { 13, 15 }
          /\ BlockReadWithTC1At(IF HighNibble(cardATR[2]) = 13 THEN 3 ELSE 4)
    /\ (last.op # "start" /\ HighNibble(cardATR[2]) \notin { 13, 15 })
       => ~parameter.is_some

\* C32 amended: TC1 is read at T0_offset+2 when Y1 is D and at T0_offset+3
\* when Y1 is F, TD1 right after it, and every other Y1 leaves no block
C32_TC1OffsetTwoThree ==
    /\ ParserSucceeded
       => /\ HighNibble(cardATR[2]) \in { 13, 15 }
          /\ BlockReadWithTC1At(IF HighNibble(cardATR[2]) = 13 THEN 2 ELSE 3)
    /\ (last.op # "start" /\ HighNibble(cardATR[2]) \notin { 13, 15 })
       => ~parameter.is_some

\* a card announcing TA1, TB1, TC1 and TD1 was parsed, TC1 taken from offset 4
C32_Witness ==
    /\ ParserSucceeded
    /\ HighNibble(cardATR[2]) = 15
    /\ cardATR[5] = 254
    /\ parameter.v[3] = 254

\* how many of TA2, TB2, TC2 the low three bits of Y2 announce
AnnouncedBelowTD(y) == (y % 2) + ((y \div 2) % 2) + ((y \div 4) % 2)

\* C40: when the parser succeeds, Y2 is in 8..F and the block's TA3 and TB3
\* are the two bytes after the TD2 found at the TD1 offset plus 1 plus the
\* number of TA2, TB2, TC2 that Y2 announces.
\* Violated: for Y2 = C the closure looks for TD2 right after TD1, where TC2 is
C40_TD2Offset ==
    ParserSucceeded
    => LET td1 == TD1Offset(cardATR)
           y2 == HighNibble(cardATR[td1 + 1])
           td2 == td1 + 1 + AnnouncedBelowTD(y2)
       IN  /\ y2 \in 8..15
           /\ td2 + 2 < Len(cardATR)
           /\ parameter.v[6] = cardATR[td2 + 2]
           /\ parameter.v[4] = cardATR[td2 + 3]


\* C38: the walk over the capability list of the physical BOS descriptor
\* comes to an end for every buffer, so a BOS request to the device handler
\* is answered.  Violated: an item whose length byte is 0 is pushed again
\* and again, the remaining bytes never getting shorter
C38_WalkTerminates ==
    (last.op = "device_urb" /\ last.decoded # "none") => ret # Err("hang")


\* the raw-HID device d is the FIDO interface of the physical USB device
FidoOfPhysicalDevice(d) ==
    /\ d.usage_page = FidoUsagePage
    /\ d.vendor_id = CanokeyVendorId
    /\ d.product_id = CanokeyProductId

\* C33: the device FIDO construction selects has usage page F1D0 and the
\* vendor id and product id of the physical device, and with no such device
\* enumerated construction fails with NotFound.
\* Violated: a device with the vendor id, usage page F1D0 and another
\* product id is selected
C33_FidoSelection ==
    last.op = "fido_new"
    => /\ fidoDevice.is_some => FidoOfPhysicalDevice(fidoDevice.v)
       /\ (\A i \in 1..Len(hidDevices) : ~FidoOfPhysicalDevice(hidDevices[i]))
          => (ret = Err("NotFound") /\ ~fidoDevice.is_some)


\* C35: a step that finds the card handle None and leaves it Some is the
\* handling of a decoded PowerOn for slot 0 whose connect succeeded; no other
\* command, decode error, Bulk IN read, control request or WebUSB URB
\* re-acquires the card
C35_NoneUntilPowerOn ==
    [][ (card = "None" /\ card' = "Some")
        => /\ last'.op = "bulk_out"
           /\ last'.decoded = "Ok"
           /\ last'.header.bMessageType = PC_to_RDR_IccPowerOn
           /\ last'.header.bSlot = 0
           /\ last'.cardBefore = "None"
           /\ Len(last'.calls) >= 1
           /\ last'.calls[1] = "connect"
           /\ liveHandles' = liveHandles + 1 ]_vars

\* a GetSlotStatus for slot 0 was handled with the card dropped, and the
\* card is still dropped
C35_Witness ==
    /\ DecodedBulkOut
    /\ last.header.bMessageType = PC_to_RDR_GetSlotStatus
    /\ last.header.bSlot = 0
    /\ last.cardBefore = "None"
    /\ card = "None"


\* C37: every frame in the response queue is as long as the 10 header bytes
\* plus the value of its own dwLength field.
\* Violated: the DataRateAndClockFrequency response is encoded as 9 header
\* bytes and two u32 with dwLength 0
C37_WellFormedFrames ==
    \A i \in 1..Len(outQueue) :
        /\ Len(outQueue[i]) >= 10
        /\ Len(outQueue[i]) = 10 + LE32(outQueue[i], 2)


\* C39: handling a Bulk OUT frame never panics: no unwrap() of the card
\* handle meets None, no append meets a response without data, and a
\* GetParameters that finds a parameter block answers with a Parameters
\* response
C39_NoPanic ==
    last.op = "bulk_out"
    => /\ ret # Err("panic")
       /\ (DecodedBulkOut /\ Len(last.calls) > 0
           /\ last.calls[Len(last.calls)] \in { "status", "end_transaction" })
          => card = "Some"
       /\ (DecodedBulkOut /\ last.header.bMessageType = PC_to_RDR_GetParameters
           /\ last.header.bSlot = 0 /\ last.cardBefore = "Some"
           /\ parameter.is_some)
          => last.resp.variant = "Parameters"

\* an XfrBlock with data passed the gate, unwrapped the handle, transmitted
\* and appended the card's answer to its DataBlock response
C39_Witness ==
    /\ DecodedBulkOut
    /\ last.header.bMessageType = PC_to_RDR_XfrBlock
    /\ last.calls = << "begin_transaction", "transmit", "end_transaction" >>
    /\ ret.ok
    /\ last.resp.variant = "DataBlock"
    /\ Len(last.resp.abData) > 0


\* the response at place k of the queue answers the command numbered q
QueuedAt(k, q) == Len(outQueue) >= k /\ outQueue[k][7] = q

\* the last URB was a Bulk IN that returned the response to the command
\* numbered q
ReturnedToHost(q) ==
    last.op = "bulk_in" /\ ret.ok /\ ret.data # << >> /\ ret.data[7] = q

\* C36: under a host that keeps reading, a queued response moves up one
\* place at a time and the one at the head is returned; a Bulk IN on a
\* non-empty queue returns and removes exactly the oldest entry, and a Bulk
\* IN on an empty queue returns empty bytes and leaves the queue empty
C36_EventuallyReturned ==
    /\ \A q \in 1..2 :
          /\ QueuedAt(1, q) ~> ReturnedToHost(q)
          /\ \A k \in 2..MaxFifoQueue : QueuedAt(k, q) ~> QueuedAt(k - 1, q)
    /\ [][ last'.op = "bulk_in"
           => /\ outQueue # << >>
                 => /\ ret' = Ok(Head(outQueue))
                    /\ outQueue' = Tail(outQueue)
              /\ outQueue = << >> => (ret' = Ok(<< >>) /\ outQueue' = << >>)
              /\ card' = card /\ parameter' = parameter ]_vars

\* the host read the older of two queued responses; the younger one, to a
\* command with another number, is now at the head
C36_Witness ==
    /\ last.op = "bulk_in"
    /\ ret.data # << >>
    /\ Len(outQueue) = 1
    /\ outQueue[1][7] # ret.data[7]


\* the place of a handler's mutex in the order device, WebUSB, CCID; the
\* FIDO handler's mutex comes last
LockRank(h) ==
    CASE h = "device" -> 1 [] h = "webusb" -> 2 [] h = "ccid" -> 3 [] OTHER -> 4

\* task t is about to call lock() on the mutex of handler h
AboutToLock(t, h) == urbPc[t] # << >> /\ Head(urbPc[t]) = << "lock", h >>

\* task t has not finished its URB and can take its next step
CanStep(t) ==
    /\ urbPc[t] # << >>
    /\ Head(urbPc[t])[1] = "lock" => mutex[Head(urbPc[t])[2]] = 0

\* C34: a task calls lock() on a handler only while every mutex it holds
\* comes earlier in the order device, WebUSB, CCID; a task holding the mutex
\* of the CCID or of the FIDO handler calls lock() on none; and whenever
\* some task has not finished its URB, some task can take its next step:
\* no interleaving deadlocks
C34_LockOrder ==
    /\ \A t \in 1..NumUrbTasks : \A h \in Handlers : \A g \in Handlers :
          (AboutToLock(t, h) /\ mutex[g] = t)
          => (LockRank(g) < LockRank(h) /\ g \notin { "ccid", "fido" })
    /\ (\E t \in 1..NumUrbTasks : urbPc[t] # << >>)
       => \E t \in 1..NumUrbTasks : CanStep(t)

\* one task holds the mutexes of the device handler and of its WebUSB child,
\* another one holds the CCID handler's, and a third one waits for the
\* WebUSB handler's
C34_Witness ==
    \E t \in 1..NumUrbTasks : \E u \in 1..NumUrbTasks : \E w \in 1..NumUrbTasks :
        /\ mutex["device"] = t /\ mutex["webusb"] = t
        /\ mutex["ccid"] = u
        /\ AboutToLock(w, "webusb")
        /\ ~CanStep(w)

====
